---------------------------- MODULE Spec2Model ----------------------------
(***************************************************************************)
(* Model of the Reconquest escrow derivation pipeline                      *)
(* (src/bitcoin_escrow.py): public-key canonicalisation, witness-script    *)
(* construction, hashing, bech32 address encoding and decoding, and the    *)
(* address verifier.                                                       *)
(*                                                                         *)
(* Representation.  A Python str is a sequence of one-character strings,   *)
(* a bytes object a sequence of integers 0..255, a list of 5-bit symbols a *)
(* sequence of integers.  A value that may be None is an Option record     *)
(* (Some / None).  A call that may raise returns an outcome record         *)
(* [exc, val]: exc = "none" for a normal return carrying val, otherwise    *)
(* the exception class that left the call.                                 *)
(*                                                                         *)
(* Library primitives.  hashlib.sha256 is modelled by sha256 below, a      *)
(* deterministic 32-byte digest of the message that depends on every byte  *)
(* and on its position; it is not the SHA-256 compression function.        *)
(* bitcoinlib's Key is modelled by Key below.                              *)
(***************************************************************************)
EXTENDS Integers, Sequences, FiniteSets, TLC

VARIABLES pc, call, out, call2, out2, contract

vars == <<pc, call, out, call2, out2, contract>>

(***************************************************************************)
(* Values                                                                  *)
(***************************************************************************)
None == [some |-> FALSE, v |-> <<>>]

Some(x) == [some |-> TRUE, v |-> x]

Return(x) == [exc |-> "none", val |-> x]

Raise(kind) == [exc |-> kind, val |-> <<>>]

NoCall == [exc |-> "nocall", val |-> <<>>]

NoArgs == [fn |-> "none"]

\* no EscrowContract object exists yet
NoContract == [state |-> "absent"]

(***************************************************************************)
(* Characters: ord(), hex digits, whitespace                               *)
(***************************************************************************)
\* ord(c) for the characters that occur in keys, prefixes and addresses
OrdTable ==
    (" " :> 32) @@ ("0" :> 48) @@ ("1" :> 49) @@ ("2" :> 50) @@ ("3" :> 51) @@ ("4" :> 52) @@
    ("5" :> 53) @@ ("6" :> 54) @@ ("7" :> 55) @@ ("8" :> 56) @@ ("9" :> 57) @@ ("A" :> 65) @@
    ("B" :> 66) @@ ("C" :> 67) @@ ("D" :> 68) @@ ("E" :> 69) @@ ("F" :> 70) @@ ("G" :> 71) @@
    ("H" :> 72) @@ ("I" :> 73) @@ ("J" :> 74) @@ ("K" :> 75) @@ ("L" :> 76) @@ ("M" :> 77) @@
    ("N" :> 78) @@ ("O" :> 79) @@ ("P" :> 80) @@ ("Q" :> 81) @@ ("R" :> 82) @@ ("S" :> 83) @@
    ("T" :> 84) @@ ("U" :> 85) @@ ("V" :> 86) @@ ("W" :> 87) @@ ("X" :> 88) @@ ("Y" :> 89) @@
    ("Z" :> 90) @@ ("a" :> 97) @@ ("b" :> 98) @@ ("c" :> 99) @@ ("d" :> 100) @@ ("e" :> 101) @@
    ("f" :> 102) @@ ("g" :> 103) @@ ("h" :> 104) @@ ("i" :> 105) @@ ("j" :> 106) @@ ("k" :> 107) @@
    ("l" :> 108) @@ ("m" :> 109) @@ ("n" :> 110) @@ ("o" :> 111) @@ ("p" :> 112) @@ ("q" :> 113) @@
    ("r" :> 114) @@ ("s" :> 115) @@ ("t" :> 116) @@ ("u" :> 117) @@ ("v" :> 118) @@ ("w" :> 119) @@
    ("x" :> 120) @@ ("y" :> 121) @@ ("z" :> 122) @@ ("-" :> 45) @@ (":" :> 58) @@
    ("_" :> 95)

Ord(c) == OrdTable[c]

\* the hexadecimal digits accepted at bitcoin_escrow.py:227
HexDigits ==
    {"0","1","2","3","4","5","6","7","8","9",
     "a","b","c","d","e","f","A","B","C","D","E","F"}

HexChars ==
    <<"0","1","2","3","4","5","6","7","8","9","a","b","c","d","e","f">>

\* str.strip() removes these from both ends
Whitespace == {" "}

\* value of one hexadecimal digit, either case
HexVal(c) ==
    IF Ord(c) >= 48 /\ Ord(c) <= 57 THEN Ord(c) - 48
    ELSE IF Ord(c) >= 97 /\ Ord(c) <= 102 THEN Ord(c) - 87
    ELSE Ord(c) - 55

\* str.lower() on one hexadecimal digit
Lower(c) == IF Ord(c) >= 65 /\ Ord(c) <= 70 THEN HexChars[HexVal(c) + 1] ELSE c

RECURSIVE LStrip(_)
LStrip(s) ==
    IF s # <<>> /\ Head(s) \in Whitespace THEN LStrip(Tail(s)) ELSE s

RECURSIVE RStrip(_)
RStrip(s) ==
    IF s # <<>> /\ s[Len(s)] \in Whitespace
    THEN RStrip(SubSeq(s, 1, Len(s) - 1)) ELSE s

\* str.strip()
Strip(s) == RStrip(LStrip(s))

\* str.replace('0x', ''): every occurrence is removed; two occurrences of
\* "0x" cannot overlap, so the characters removed are those at k and k + 1
\* for every k with s[k..k+1] = "0x"
Replace0x(s) ==
    LET removed(k) == \/ (k < Len(s) /\ s[k] = "0" /\ s[k + 1] = "x")
                      \/ (k > 1 /\ s[k - 1] = "0" /\ s[k] = "x")
        kept       == SelectSeq([k \in 1..Len(s) |-> k], LAMBDA k : ~removed(k))
    IN  [k \in 1..Len(kept) |-> s[kept[k]]]

\* bytes.hex(): two lowercase digits per byte
Hex(b) ==
    [k \in 1..(2 * Len(b)) |->
        IF k % 2 = 1 THEN HexChars[(b[(k + 1) \div 2] \div 16) + 1]
        ELSE HexChars[(b[k \div 2] % 16) + 1]]

\* bytes.fromhex(): whitespace is skipped before each byte; a non-hex
\* character, whitespace between the two digits of a byte, or a lone
\* trailing digit raises ValueError
FromHex(s) ==
    LET IsDigit(c)  == c \notin Whitespace
        digits      == SelectSeq(s, IsDigit)
        before(k)   == Len(SelectSeq(SubSeq(s, 1, k - 1), IsDigit))
    IN  IF \/ \E k \in 1..Len(digits) : digits[k] \notin HexDigits
           \/ Len(digits) % 2 = 1
           \/ \E k \in 1..Len(s) : s[k] \in Whitespace /\ before(k) % 2 = 1
        THEN Raise("ValueError")
        ELSE Return([k \in 1..(Len(digits) \div 2) |->
                        16 * HexVal(digits[2 * k - 1]) + HexVal(digits[2 * k])])

\* str < str: lexicographic by code point, a proper prefix is smaller
StrLess(a, b) ==
    LET m    == IF Len(a) < Len(b) THEN Len(a) ELSE Len(b)
        diff == {k \in 1..m : a[k] # b[k]}
    IN  IF diff = {} THEN Len(a) < Len(b)
        ELSE LET k == CHOOSE d \in diff : \A e \in diff : d <= e
             IN  Ord(a[k]) < Ord(b[k])

\* bytes < bytes
BytesLess(a, b) ==
    LET m    == IF Len(a) < Len(b) THEN Len(a) ELSE Len(b)
        diff == {k \in 1..m : a[k] # b[k]}
    IN  IF diff = {} THEN Len(a) < Len(b)
        ELSE LET k == CHOOSE d \in diff : \A e \in diff : d <= e
             IN  a[k] < b[k]

(***************************************************************************)
(* Integer bit operations                                                  *)
(***************************************************************************)
RECURSIVE Pow2(_)
Pow2(n) == IF n = 0 THEN 1 ELSE 2 * Pow2(n - 1)

RECURSIVE XorBits(_, _)
XorBits(a, b) ==
    IF a = 0 THEN b
    ELSE IF b = 0 THEN a
    ELSE ((a + b) % 2) + 2 * XorBits(a \div 2, b \div 2)

\* a ^ b for a, b in 0..31
Xor5 == [a \in 0..31 |-> [b \in 0..31 |-> XorBits(a, b)]]

\* a ^ b on non-negative integers, five bits at a time
RECURSIVE Xor(_, _)
Xor(a, b) ==
    IF a = 0 THEN b
    ELSE IF b = 0 THEN a
    ELSE Xor5[a % 32][b % 32] + 32 * Xor(a \div 32, b \div 32)

(***************************************************************************)
(* Bech32 codec (bitcoin_escrow.py:62-125)                                 *)
(***************************************************************************)
GEN == <<996825010, 642813549, 513874426, 1027748829, 705979059>>

\* the inner loop "for i in range(5): chk ^= GEN[i] if ((top >> i) & 1) else 0"
RECURSIVE PolymodGen(_, _, _)
PolymodGen(chk, top, i) ==
    IF i = 5 THEN chk
    ELSE PolymodGen(IF (top \div Pow2(i)) % 2 = 1 THEN Xor(chk, GEN[i + 1])
                    ELSE chk,
                    top, i + 1)

\* one iteration of "for value in values"
PolymodStep(chk, value) ==
    PolymodGen(Xor((chk % 33554432) * 32, value), chk \div 33554432, 0)

\* "for value in values" over values[lo..hi], entered with chk; the first
\* half of the range is evaluated before the second is entered
RECURSIVE PolymodRange(_, _, _, _)
PolymodRange(values, lo, hi, chk) ==
    IF lo > hi THEN chk
    ELSE IF lo = hi THEN PolymodStep(chk, values[lo])
    ELSE LET mid  == (lo + hi) \div 2
             left == PolymodRange(values, lo, mid, chk)
         IN  IF left < 0 THEN left
             ELSE PolymodRange(values, mid + 1, hi, left)

bech32_polymod(values) == PolymodRange(values, 1, Len(values), 1)

bech32_hrp_expand(hrp) ==
    [k \in 1..Len(hrp) |-> Ord(hrp[k]) \div 32] \o <<0>>
    \o [k \in 1..Len(hrp) |-> Ord(hrp[k]) % 32]

bech32_verify_checksum(hrp, data) ==
    bech32_polymod(bech32_hrp_expand(hrp) \o data) = 1

\* the checksum without the final "^ 1" of line 87
ChecksumWithoutFinalXor(hrp, data) ==
    LET values == bech32_hrp_expand(hrp) \o data
        polymod == bech32_polymod(values \o <<0, 0, 0, 0, 0, 0>>)
    IN  [k \in 1..6 |-> (polymod \div Pow2(5 * (5 - (k - 1)))) % 32]

bech32_create_checksum(hrp, data) ==
    LET values == bech32_hrp_expand(hrp) \o data
        polymod == Xor(bech32_polymod(values \o <<0, 0, 0, 0, 0, 0>>), 1)
    IN  [k \in 1..6 |-> (polymod \div Pow2(5 * (5 - (k - 1)))) % 32]

\* "while bits >= tobits" entered with bits: the symbols appended and the
\* bits left
ConvertDrain(acc, bits, tobits) ==
    [bits |-> bits % tobits,
     out  |-> [k \in 1..(bits \div tobits) |->
                  (acc \div Pow2(bits - k * tobits)) % Pow2(tobits)]]

\* One iteration of "for value in data".  st = [acc, bits, ret, bad]; bad
\* records "return None".  The value is below 2^frombits when it is or-ed
\* into the shifted accumulator, so the "|" adds.
ConvertStep(st, value, frombits, tobits) ==
    IF st.bad THEN st
    ELSE IF value < 0 \/ value \div Pow2(frombits) # 0
         THEN [st EXCEPT !.bad = TRUE]
    ELSE LET acc == (st.acc * Pow2(frombits) + value)
                    % Pow2(frombits + tobits - 1)
             d   == ConvertDrain(acc, st.bits + frombits, tobits)
         IN  [acc |-> acc, bits |-> d.bits, ret |-> st.ret \o d.out,
              bad |-> FALSE]

\* the loop over data[lo..hi], entered with st
RECURSIVE ConvertLoop(_, _, _, _, _, _)
ConvertLoop(data, lo, hi, st, frombits, tobits) ==
    IF lo > hi THEN st
    ELSE IF lo = hi THEN ConvertStep(st, data[lo], frombits, tobits)
    ELSE LET mid  == (lo + hi) \div 2
             left == ConvertLoop(data, lo, mid, st, frombits, tobits)
         IN  IF left.bad THEN left
             ELSE ConvertLoop(data, mid + 1, hi, left, frombits, tobits)

convertbits(data, frombits, tobits, pad) ==
    LET st   == ConvertLoop(data, 1, Len(data),
                    [acc |-> 0, bits |-> 0, ret |-> <<>>, bad |-> FALSE],
                    frombits, tobits)
        left == (st.acc * Pow2(tobits - st.bits)) % Pow2(tobits)
    IN  IF st.bad THEN None
        ELSE IF pad THEN (IF st.bits # 0 THEN Some(Append(st.ret, left))
                          ELSE Some(st.ret))
        ELSE IF st.bits >= frombits \/ left # 0 THEN None
        ELSE Some(st.ret)

CHARSET ==
    <<"q","p","z","r","y","9","x","8","g","f","2","t","v","d","w","0">> \o
    <<"s","3","j","n","5","4","k","h","c","e","6","m","u","a","7","l">>

\* CHARSET.index(c), 0-based
CharsetIndex(c) == (CHOOSE k \in 1..32 : CHARSET[k] = c) - 1

encode_bech32_address(hrp, witver, witprog) ==
    LET converted_bits == convertbits(witprog, 8, 5, TRUE)
    IN  IF ~converted_bits.some THEN None
        ELSE LET data == <<witver>> \o converted_bits.v
                 full == data \o bech32_create_checksum(hrp, data)
             IN  Some(hrp \o <<"1">> \o [k \in 1..Len(full) |-> CHARSET[full[k] + 1]])

(***************************************************************************)
(* Network configuration (bitcoin_escrow.py:48-59)                         *)
(***************************************************************************)
NETWORK_CONFIG ==
    [testnet |-> [bech32_prefix |-> <<"t", "b">>],
     mainnet |-> [bech32_prefix |-> <<"b", "c">>]]

(***************************************************************************)
(* hashlib.sha256(msg).digest(): 32 bytes determined by the message        *)
(***************************************************************************)
DigestLen == 32

\* sum over msg[lo..hi] of the bytes weighted by position and output index
RECURSIVE DigestSum(_, _, _, _)
DigestSum(msg, lo, hi, i) ==
    IF lo > hi THEN 0
    ELSE IF lo = hi THEN (msg[lo] + 1) * ((lo * lo * i + i * i * lo + 1) % 251)
    ELSE LET mid == (lo + hi) \div 2
         IN  DigestSum(msg, lo, mid, i) + DigestSum(msg, mid + 1, hi, i)

sha256(msg) ==
    [i \in 1..DigestLen |-> (DigestSum(msg, 1, Len(msg), i) + Len(msg) + i) % 256]

(***************************************************************************)
(* create_multisig_escrow (bitcoin_escrow.py:173-295)                      *)
(***************************************************************************)
\* bitcoinlib Key(clean_hex) on a 66-digit hex string: a compressed public
\* key is recognised by its 02/03 prefix, anything else is refused;
\* public_hex is the key in lowercase hex.
Key(clean_hex) ==
    IF Len(clean_hex) = 66 /\ clean_hex[1] = "0" /\ clean_hex[2] \in {"2", "3"}
    THEN Return([public_hex |-> [k \in 1..Len(clean_hex) |-> Lower(clean_hex[k])]])
    ELSE Raise("BKeyError")

\* body of the per-key loop, lines 224-242: every failure leaves the loop
\* as ValueError
ProcessKey(hex_key) ==
    LET clean_hex == Replace0x(Strip(hex_key))
    IN  IF \E k \in 1..Len(clean_hex) : clean_hex[k] \notin HexDigits
        THEN Raise("ValueError")
        ELSE IF Len(clean_hex) # 66 THEN Raise("ValueError")
        ELSE IF Key(clean_hex).exc # "none" THEN Raise("ValueError")
        ELSE Key(clean_hex)

RECURSIVE InsertByPublicHex(_, _)
InsertByPublicHex(key, s) ==
    IF s = <<>> THEN <<key>>
    ELSE IF StrLess(key.public_hex, Head(s).public_hex) THEN <<key>> \o s
    ELSE <<Head(s)>> \o InsertByPublicHex(key, Tail(s))

\* the keys left in argument order, as the derivation would use them
\* without line 244
KeepArgumentOrder(keys) == keys

\* sorted(public_keys, key=lambda k: k.public_hex): stable, ascending
RECURSIVE SortByPublicHex(_)
SortByPublicHex(keys) ==
    IF keys = <<>> THEN <<>>
    ELSE InsertByPublicHex(keys[Len(keys)],
                           SortByPublicHex(SubSeq(keys, 1, Len(keys) - 1)))

\* the keys one after the other without their length bytes
RECURSIVE PushKeysWithoutLength(_)
PushKeysWithoutLength(pks) ==
    IF pks = <<>> THEN <<>>
    ELSE Head(pks) \o PushKeysWithoutLength(Tail(pks))

\* lines 249-252: each key behind its length byte
RECURSIVE PushKeys(_)
PushKeys(pks) ==
    IF pks = <<>> THEN <<>>
    ELSE <<Len(Head(pks))>> \o Head(pks) \o PushKeys(Tail(pks))

\* the script with OP_2 as its threshold: OP_2 <pk> <pk> <pk> OP_3
\* OP_CHECKMULTISIG
TwoOfThreeScript(sorted_keys) ==
    <<82>>
    \o PushKeys([k \in 1..Len(sorted_keys) |-> FromHex(sorted_keys[k].public_hex).val])
    \o <<83>> \o <<174>>

\* lines 246-257: OP_3 <pk> <pk> <pk> OP_3 OP_CHECKMULTISIG
MultisigScript(sorted_keys) ==
    <<83>>
    \o PushKeys([k \in 1..Len(sorted_keys) |-> FromHex(sorted_keys[k].public_hex).val])
    \o <<83>> \o <<174>>

create_multisig_escrow(borrower_pubkey_hex, investor_pubkey_hex, platform_pubkey_hex, network) ==
    LET hex_keys == <<borrower_pubkey_hex, investor_pubkey_hex, platform_pubkey_hex>>
        keys     == [k \in 1..3 |-> ProcessKey(hex_keys[k])]
    IN  IF network \notin DOMAIN NETWORK_CONFIG THEN Raise("ValueError")
        ELSE IF \E k \in 1..3 : hex_keys[k] = <<>> THEN Raise("ValueError")
        ELSE IF \E k \in 1..3 : keys[k].exc # "none" THEN Raise("ValueError")
        ELSE
          LET sorted_keys   == SortByPublicHex([k \in 1..3 |-> keys[k].val])
              witness_script_bytes == MultisigScript(sorted_keys)
              script_hash   == sha256(witness_script_bytes)
              bech32_prefix == NETWORK_CONFIG[network].bech32_prefix
              address       == encode_bech32_address(bech32_prefix, 0, script_hash)
          IN  Return([address        |-> address,
                      witness_script |-> Hex(witness_script_bytes),
                      redeem_script  |-> Hex(witness_script_bytes),
                      script_pubkey  |-> Hex(<<0, 32>> \o script_hash),
                      script_hash    |-> Hex(script_hash),
                      public_keys    |-> [k \in 1..3 |-> sorted_keys[k].public_hex],
                      public_keys_original_order |->
                          [borrower |-> borrower_pubkey_hex,
                           investor |-> investor_pubkey_hex,
                           platform |-> platform_pubkey_hex],
                      signatures_required |-> 3,
                      total_keys     |-> 3,
                      network        |-> network,
                      address_type   |-> "P2WSH",
                      lender_bitcoin_blind |-> TRUE])

(***************************************************************************)
(* verify_multisig_address (bitcoin_escrow.py:298-321)                     *)
(***************************************************************************)
\* the statements inside "try:" with the testnet prefix in place of the
\* network's
VerifyBodyTestnetPrefix(address, witness_script_hex, network) ==
    IF network \notin DOMAIN NETWORK_CONFIG THEN Return(FALSE)
    ELSE IF FromHex(witness_script_hex).exc # "none" THEN Raise("ValueError")
    ELSE LET script_hash == sha256(FromHex(witness_script_hex).val)
             calculated_address ==
                 encode_bech32_address(NETWORK_CONFIG["testnet"].bech32_prefix,
                                       0, script_hash)
         IN  Return(address = calculated_address)

\* the statements inside "try:", lines 311-318
VerifyBody(address, witness_script_hex, network) ==
    IF network \notin DOMAIN NETWORK_CONFIG THEN Return(FALSE)
    ELSE IF FromHex(witness_script_hex).exc # "none" THEN Raise("ValueError")
    ELSE LET script_hash   == sha256(FromHex(witness_script_hex).val)
             bech32_prefix == NETWORK_CONFIG[network].bech32_prefix
             calculated_address == encode_bech32_address(bech32_prefix, 0, script_hash)
         IN  Return(address = calculated_address)

\* the verifier without its "except Exception" clause
VerifyWithoutExcept(address, witness_script_hex, network) ==
    VerifyBody(address, witness_script_hex, network)

\* "except Exception: return False"
verify_multisig_address(address, witness_script_hex, network) ==
    LET r == VerifyBody(address, witness_script_hex, network)
    IN  IF r.exc # "none" THEN Return(FALSE) ELSE r

(***************************************************************************)
(* decode_bech32_to_scriptpubkey (bitcoin_escrow.py:551-587)               *)
(***************************************************************************)
\* str.rfind('1') as a 1-based position, 0 when absent
RFind1(s) ==
    IF \E k \in 1..Len(s) : s[k] = "1"
    THEN CHOOSE k \in 1..Len(s) :
             s[k] = "1" /\ \A j \in (k + 1)..Len(s) : s[j] # "1"
    ELSE 0

\* the symbols with the checksum left in place
KeepChecksum(data) == data

\* "data = data[:-6]", line 573
StripChecksum(data) == SubSeq(data, 1, Len(data) - 6)

decode_bech32_to_scriptpubkey(address) ==
    LET pos       == RFind1(address) - 1
        data_part == SubSeq(address, pos + 2, Len(address))
    IN  IF pos < 1 THEN Raise("ValueError")
        ELSE IF \E k \in 1..Len(data_part) :
                    \A j \in 1..32 : CHARSET[j] # data_part[k]
             THEN Raise("ValueError")
        ELSE
          LET all  == [k \in 1..Len(data_part) |-> CharsetIndex(data_part[k])]
              data == StripChecksum(all)
          IN  IF data = <<>> THEN Raise("IndexError")
              ELSE
                LET witver  == data[1]
                    witprog == convertbits(Tail(data), 5, 8, FALSE)
                IN  IF ~witprog.some THEN Raise("ValueError")
                    ELSE IF Len(witprog.v) > 255 THEN Raise("ValueError")
                    ELSE IF witver = 0
                         THEN Return(<<0, Len(witprog.v)>> \o witprog.v)
                    ELSE Return(<<80 + witver, Len(witprog.v)>> \o witprog.v)

(***************************************************************************)
(* push_int and create_timelocked_witness_script                           *)
(* (bitcoin_escrow.py:329-427)                                             *)
(***************************************************************************)
DEFAULT_RECOVERY_BLOCKS == 4320

\* "while value: result.append(value & 0xff); value >>= 8" for value > 0
RECURSIVE PushIntLoop(_)
PushIntLoop(value) ==
    IF value = 0 THEN <<>>
    ELSE <<value % 256>> \o PushIntLoop(value \div 256)

\* push_int without the 0x00 that keeps the number positive
PushIntWithoutSignByte(value) ==
    IF value = 0 THEN Return(<<0>>)
    ELSE IF 1 <= value /\ value <= 16 THEN Return(<<80 + value>>)
    ELSE IF value < 0 THEN Raise("NoReturn")
    ELSE Return(<<Len(PushIntLoop(value))>> \o PushIntLoop(value))

\* For a negative value the loop never ends (value >>= 8 stays at -1):
\* the call does not return.
push_int(value) ==
    IF value = 0 THEN Return(<<0>>)
    ELSE IF 1 <= value /\ value <= 16 THEN Return(<<80 + value>>)
    ELSE IF value < 0 THEN Raise("NoReturn")
    ELSE LET result == PushIntLoop(value)
             signed == IF result[Len(result)] >= 128
                       THEN Append(result, 0) ELSE result
         IN  Return(<<Len(signed)>> \o signed)

RECURSIVE InsertBytes(_, _)
InsertBytes(pk, s) ==
    IF s = <<>> THEN <<pk>>
    ELSE IF BytesLess(pk, Head(s)) THEN <<pk>> \o s
    ELSE <<Head(s)>> \o InsertBytes(pk, Tail(s))

\* the keys left in argument order, as the script would use them without
\* line 385
KeepPkOrder(pks) == pks

\* sorted([borrower_pk, investor_pk, platform_pk])
RECURSIVE SortPks(_)
SortPks(pks) ==
    IF pks = <<>> THEN <<>>
    ELSE InsertBytes(pks[Len(pks)], SortPks(SubSeq(pks, 1, Len(pks) - 1)))

\* the script with the first of the sorted keys as its recovery signer
RecoveryByFirstSortedKey(borrower_pk, sorted_pks, timelock_bytes) ==
    <<99>> \o <<Len(sorted_pks[1])>> \o sorted_pks[1] \o <<173>>
    \o timelock_bytes \o <<178>> \o <<117>> \o <<81>>
    \o <<103>> \o <<83>> \o PushKeys(sorted_pks) \o <<83>> \o <<174>>
    \o <<104>>

\* lines 388-418
TimelockedScript(borrower_pk, sorted_pks, timelock_bytes) ==
    <<99>> \o <<Len(borrower_pk)>> \o borrower_pk \o <<173>>
    \o timelock_bytes \o <<178>> \o <<117>> \o <<81>>
    \o <<103>> \o <<83>> \o PushKeys(sorted_pks) \o <<83>> \o <<174>>
    \o <<104>>

create_timelocked_witness_script(borrower_pubkey_hex, investor_pubkey_hex, platform_pubkey_hex, recovery_blocks) ==
    LET borrower_pk == FromHex(Strip(borrower_pubkey_hex))
        investor_pk == FromHex(Strip(investor_pubkey_hex))
        platform_pk == FromHex(Strip(platform_pubkey_hex))
    IN  IF borrower_pk.exc # "none" \/ investor_pk.exc # "none"
           \/ platform_pk.exc # "none"
        THEN Raise("ValueError")
        ELSE IF Len(borrower_pk.val) > 255 THEN Raise("ValueError")
        ELSE IF push_int(recovery_blocks).exc # "none"
             THEN push_int(recovery_blocks)
        ELSE IF Len(investor_pk.val) > 255 \/ Len(platform_pk.val) > 255
             THEN Raise("ValueError")
        ELSE
          LET sorted_pks     == SortPks(<<borrower_pk.val, investor_pk.val,
                                          platform_pk.val>>)
              witness_script == TimelockedScript(borrower_pk.val, sorted_pks,
                                                 push_int(recovery_blocks).val)
              script_hash    == sha256(witness_script)
          IN  Return([witness_script |-> Hex(witness_script),
                      script_hash    |-> Hex(script_hash),
                      recovery_blocks |-> recovery_blocks,
                      recovery_days  |-> recovery_blocks \div 144,
                      sorted_pubkeys |-> [k \in 1..3 |-> Hex(sorted_pks[k])]])

(***************************************************************************)
(* Integers the code serialises with struct.pack.  A Python integer that   *)
(* is only packed is a PyInt: its sign and the little-endian base-256      *)
(* digits of its magnitude, so that values of 32 and 64 bits and beyond    *)
(* keep their width.                                                       *)
(***************************************************************************)
RECURSIVE Digits(_)
Digits(n) == IF n = 0 THEN <<>> ELSE <<n % 256>> \o Digits(n \div 256)

PyInt(n) == [neg |-> n < 0, mag |-> Digits(IF n < 0 THEN -n ELSE n)]

\* struct.pack('<H' / '<I' / '<Q', v) for width 2 / 4 / 8: struct.error
\* when v is negative or needs more bytes
Pack(v, width) ==
    IF v.neg \/ Len(v.mag) > width THEN Raise("struct.error")
    ELSE Return([k \in 1..width |-> IF k <= Len(v.mag) THEN v.mag[k] ELSE 0])

\* bytes[::-1]
Reverse(b) == [k \in 1..Len(b) |-> b[Len(b) + 1 - k]]

\* str.startswith
StartsWith(s, prefix) ==
    Len(s) >= Len(prefix) /\ SubSeq(s, 1, Len(prefix)) = prefix

Base64Alphabet ==
    <<"A","B","C","D","E","F","G","H","I","J","K","L","M","N","O","P">> \o
    <<"Q","R","S","T","U","V","W","X","Y","Z","a","b","c","d","e","f">> \o
    <<"g","h","i","j","k","l","m","n","o","p","q","r","s","t","u","v">> \o
    <<"w","x","y","z","0","1","2","3","4","5","6","7","8","9","+","/">>

\* base64.b64encode(b).decode('ascii')
b64encode(b) ==
    LET n       == Len(b)
        byte(k) == IF k <= n THEN b[k] ELSE 0
        quad(g) == byte(3 * g + 1) * 65536 + byte(3 * g + 2) * 256 + byte(3 * g + 3)
        sextet(g, j) == (quad(g) \div Pow2(6 * (3 - j))) % 64
    IN  [k \in 1..(4 * ((n + 2) \div 3)) |->
            LET g == (k - 1) \div 4
                j == (k - 1) % 4
            IN  IF 3 * g + j > n THEN "=" ELSE Base64Alphabet[sextet(g, j) + 1]]

(***************************************************************************)
(* write_with_length (bitcoin_escrow.py:537-548): the stream after the     *)
(* write                                                                   *)
(***************************************************************************)
write_with_length(stream, data) ==
    LET length == Len(data)
    IN  IF length < 253 THEN stream \o <<length>> \o data
        ELSE IF length <= 65535
             THEN stream \o <<253>> \o Pack(PyInt(length), 2).val \o data
        ELSE stream \o <<254>> \o Pack(PyInt(length), 4).val \o data

(***************************************************************************)
(* create_unsigned_psbt (bitcoin_escrow.py:430-534)                        *)
(***************************************************************************)
PSBT_MAGIC == <<112, 115, 98, 116, 255>>

\* every destination passes the test of line 482
AnyAddressSupported(address) == TRUE

\* line 482
IsBech32Destination(address) ==
    StartsWith(address, <<"t", "b", "1">>) \/ StartsWith(address, <<"b", "c", "1">>)

\* lines 481-486: the scriptPubKey of a destination
ScriptPubkeyOf(address) ==
    IF IsBech32Destination(address)
    THEN decode_bech32_to_scriptpubkey(address)
    ELSE Raise("ValueError")

\* lines 478 and 489-490: the bytes written for an output, given its packed
\* value and its scriptPubKey
OutputBytes(value, script_pubkey) ==
    IF value.exc # "none" THEN value
    ELSE IF script_pubkey.exc # "none" THEN script_pubkey
    ELSE IF Len(script_pubkey.val) > 255 THEN Raise("ValueError")
    ELSE Return(value.val \o <<Len(script_pubkey.val)>> \o script_pubkey.val)

\* one turn of the loop of lines 477-490
WriteOutput(o) == OutputBytes(Pack(o.value, 8), ScriptPubkeyOf(o.address))

RECURSIVE ConcatOutputs(_)
ConcatOutputs(written) ==
    IF written = <<>> THEN <<>>
    ELSE Head(written).val \o ConcatOutputs(Tail(written))

\* the loop of lines 477-490 over the outcomes of its turns: the first
\* failure, or the bytes of all outputs
FirstFailureOrAll(written) ==
    IF \E k \in 1..Len(written) : written[k].exc # "none"
    THEN written[CHOOSE k \in 1..Len(written) :
                     /\ written[k].exc # "none"
                     /\ \A j \in 1..(k - 1) : written[j].exc = "none"]
    ELSE Return(ConcatOutputs(written))

WriteOutputs(outputs) ==
    FirstFailureOrAll([k \in 1..Len(outputs) |-> WriteOutput(outputs[k])])

\* bytes[::-1] of a decoded hex string
Reversed(decoded) ==
    IF decoded.exc # "none" THEN decoded ELSE Return(Reverse(decoded.val))

\* the txid as written, without the [::-1] of line 467
TxidAsGiven(input_txid) == FromHex(input_txid)

\* line 467
TxidBytes(input_txid) == Reversed(FromHex(input_txid))

\* lines 461-495
UnsignedTx(txid_bytes, vout, seq, count, outs) ==
    <<2, 0, 0, 0>> \o <<1>> \o txid_bytes \o vout \o <<0>> \o seq
    \o <<count>> \o outs \o <<0, 0, 0, 0>>

\* lines 514-517
WitnessUtxo(value, script_hash) ==
    value \o <<2 + Len(script_hash)>> \o <<0, 32>> \o script_hash

\* lines 498-530
PsbtBytes(unsigned_tx, witness_utxo, witness_script, count) ==
    write_with_length(
        write_with_length(
            write_with_length(PSBT_MAGIC \o <<1, 0>>, unsigned_tx)
                \o <<0>> \o <<1, 1>>,
            witness_utxo) \o <<1, 5>>,
        witness_script) \o <<0>> \o [k \in 1..count |-> 0]

\* the body of create_unsigned_psbt over the outcomes of its conversions, in
\* the order the code performs them
BuildPsbt(txid_bytes, vout, seq, count, outs, witness_script, value) ==
    IF txid_bytes.exc # "none" THEN txid_bytes
    ELSE IF vout.exc # "none" THEN vout
    ELSE IF seq.exc # "none" THEN seq
    ELSE IF count > 255 THEN Raise("ValueError")
    ELSE IF outs.exc # "none" THEN outs
    ELSE IF witness_script.exc # "none" THEN witness_script
    ELSE IF value.exc # "none" THEN value
    ELSE Return(b64encode(
             PsbtBytes(UnsignedTx(txid_bytes.val, vout.val, seq.val, count, outs.val),
                       WitnessUtxo(value.val, sha256(witness_script.val)),
                       witness_script.val, count)))

create_unsigned_psbt(input_txid, input_vout, input_value, witness_script_hex, outputs, sequence, network) ==
    BuildPsbt(TxidBytes(input_txid), Pack(input_vout, 4), Pack(sequence, 4),
              Len(outputs), WriteOutputs(outputs), FromHex(witness_script_hex),
              Pack(input_value, 8))

(***************************************************************************)
(* generate_psbt_templates (bitcoin_escrow.py:590-676)                     *)
(***************************************************************************)
RECURSIVE FloorLog2(_)
FloorLog2(n) == IF n < 2 THEN 0 ELSE 1 + FloorLog2(n \div 2)

\* int(output_value * 0.7), line 623.  0.7 is the double 0.7 - 0.4 / 2^53,
\* so the product lies just under 7v/10 and is rounded to 53 bits before
\* int() truncates it: when 7v/10 is an integer k, the result is k - 1 if
\* the product is nearer to the double under k than to k, which is when
\* 4k > 7 * 2^floor(log2 k); otherwise it is floor(7v/10).
LenderShare(output_value) ==
    LET k == (7 * output_value) \div 10
    IN  IF output_value % 10 = 0 /\ k > 0 /\ 4 * k > 7 * Pow2(FloorLog2(k))
        THEN k - 1 ELSE k

\* the larger argument dropped: no floor
FirstArgument(a, b) == a

FeeEstimate == 500

DustLimit == 546

\* max(a, b)
Max(a, b) == IF a >= b THEN a ELSE b

SequenceFinal == [neg |-> FALSE, mag |-> <<255, 255, 255, 255>>]

\* the result dict, or the first failure among the four calls in order
CollectTemplates(psbts) ==
    IF \E k \in 1..4 : psbts[k].exc # "none"
    THEN psbts[CHOOSE k \in 1..4 : /\ psbts[k].exc # "none"
                                   /\ \A j \in 1..(k - 1) : psbts[j].exc = "none"]
    ELSE Return([psbt_repayment   |-> psbts[1].val,
                 psbt_default     |-> psbts[2].val,
                 psbt_liquidation |-> psbts[3].val,
                 psbt_recovery    |-> psbts[4].val])

TemplateOutput(address, value) == [address |-> address, value |-> PyInt(value)]

\* outputs and sequence of the calls of lines 629, 640, 651 and 666
TemplateCallsOf(borrower_address, lender_address, output_value, lender_share, recovery_blocks) ==
    << [outputs  |-> <<TemplateOutput(borrower_address, output_value)>>,
        sequence |-> SequenceFinal],
       [outputs  |-> <<TemplateOutput(lender_address, output_value)>>,
        sequence |-> SequenceFinal],
       [outputs  |-> <<TemplateOutput(lender_address, lender_share),
                       TemplateOutput(borrower_address, output_value - lender_share)>>,
        sequence |-> SequenceFinal],
       [outputs  |-> <<TemplateOutput(borrower_address, output_value)>>,
        sequence |-> PyInt(recovery_blocks)] >>

\* lines 618-620
OutputValue(input_value) == Max(input_value - FeeEstimate, DustLimit)

\* the four calls, given their outputs and sequences
CallTemplates(calls, witness_script, input_txid, input_vout, input_value, network) ==
    CollectTemplates(
        [k \in 1..4 |->
            create_unsigned_psbt(input_txid, input_vout, PyInt(input_value),
                                 witness_script, calls[k].outputs,
                                 calls[k].sequence, network)])

generate_psbt_templates(escrow_result, borrower_address, lender_address, input_txid, input_vout, input_value, recovery_blocks, network) ==
    CallTemplates(
        TemplateCallsOf(borrower_address, lender_address,
                        OutputValue(input_value),
                        LenderShare(OutputValue(input_value)), recovery_blocks),
        escrow_result.witness_script, input_txid, input_vout, input_value,
        network)

(***************************************************************************)
(* Escrow contracts (bitcoin_escrow_enhanced.py)                           *)
(***************************************************************************)
\* EscrowState values, lines 34-37
INITIALIZED == "initialized"

FUNDED == "funded"

TRANSACTIONS_SIGNED == "transactions_signed"

\* str(n) for an integer
RECURSIVE DecimalDigits(_)
DecimalDigits(n) ==
    IF n < 10 THEN <<HexChars[n + 1]>>
    ELSE DecimalDigits(n \div 10) \o <<HexChars[(n % 10) + 1]>>

Str(n) == IF n < 0 THEN <<"-">> \o DecimalDigits(-n) ELSE DecimalDigits(n)

\* str.encode() of an ASCII string
Encode(s) == [k \in 1..Len(s) |-> Ord(s[k])]

\* the tx_type strings of lines 278, 289, 300 and 311
TypeRepayment == <<"r", "e", "p", "a", "y", "m", "e", "n", "t">>

TypeDefault == <<"d", "e", "f", "a", "u", "l", "t">>

TypeLiquidation == <<"l", "i", "q", "u", "i", "d", "a", "t", "i", "o", "n">>

TypeRecovery ==
    <<"r", "e", "c", "o", "v", "e", "r", "y", "_">> \o
    <<"t", "i", "m", "e", "l", "o", "c", "k", "e", "d">>

\* create_simple_tx_hash, lines 321-348
create_simple_tx_hash(input_txid, input_vout, output_address, output_amount_sats, tx_type) ==
    Hex(sha256(Encode(input_txid \o <<":">> \o Str(input_vout) \o <<":">>
                      \o output_address \o <<":">> \o Str(output_amount_sats)
                      \o <<":">> \o tx_type)))

\* generate_keypair, lines 125-142: the key pair of a freshly drawn key; the
\* WIF and the address are kept as the network and the key they encode
generate_keypair(network, public_hex) ==
    [private_key_wif |-> <<"wif", network, public_hex>>,
     public_key_hex  |-> public_hex,
     address         |-> <<"address", network, public_hex>>]

\* the EscrowContract of lines 186-195 from the escrow derived at line 179
NewContract(escrow_result, borrower_key, lender_key, platform_pubkey) ==
    IF escrow_result.exc # "none" THEN escrow_result
    ELSE Return([escrow_address  |-> escrow_result.val.address,
                 witness_script  |-> escrow_result.val.witness_script,
                 script_hash     |-> escrow_result.val.script_hash,
                 borrower_key    |-> borrower_key,
                 lender_key      |-> lender_key,
                 platform_pubkey |-> platform_pubkey,
                 state           |-> INITIALIZED,
                 created_at      |-> "utcnow",
                 repayment_tx    |-> None,
                 default_tx      |-> None,
                 liquidation_tx  |-> None,
                 recovery_tx     |-> None,
                 funding_txid    |-> None,
                 funding_vout    |-> None,
                 funded_amount_sats |-> None])

\* create_escrow_contract, lines 145-201, with the public keys the two
\* generated key pairs turn out to have; the escrow is derived with the
\* default network of create_multisig_escrow
create_escrow_contract(borrower_hex, lender_hex, platform_pubkey, network) ==
    NewContract(create_multisig_escrow(borrower_hex, lender_hex,
                                       platform_pubkey, "testnet"),
                generate_keypair(network, borrower_hex),
                generate_keypair(network, lender_hex), platform_pubkey)

\* update_contract_with_funding, lines 204-231
update_contract_with_funding(c, funding_txid, funding_vout, funded_amount_sats) ==
    [c EXCEPT !.funding_txid = Some(funding_txid),
              !.funding_vout = Some(funding_vout),
              !.funded_amount_sats = Some(funded_amount_sats),
              !.state = FUNDED]

\* "not contract.funding_txid": None or the empty string
Falsy(optional_str) == ~optional_str.some \/ optional_str.v = <<>>

\* the contract after lines 271-315, the state left as it was
SignedKeepingState(c, borrower_return_address, lender_return_address, amount) ==
    [c EXCEPT
        !.repayment_tx = Some(create_simple_tx_hash(c.funding_txid.v,
            c.funding_vout.v, borrower_return_address, amount, TypeRepayment)),
        !.default_tx = Some(create_simple_tx_hash(c.funding_txid.v,
            c.funding_vout.v, lender_return_address, amount, TypeDefault)),
        !.liquidation_tx = Some(create_simple_tx_hash(c.funding_txid.v,
            c.funding_vout.v, lender_return_address, amount, TypeLiquidation)),
        !.recovery_tx = Some(create_simple_tx_hash(c.funding_txid.v,
            c.funding_vout.v, borrower_return_address, amount, TypeRecovery))]

\* the contract after lines 271-315
Signed(c, borrower_return_address, lender_return_address, amount) ==
    [c EXCEPT
        !.repayment_tx = Some(create_simple_tx_hash(c.funding_txid.v,
            c.funding_vout.v, borrower_return_address, amount, TypeRepayment)),
        !.default_tx = Some(create_simple_tx_hash(c.funding_txid.v,
            c.funding_vout.v, lender_return_address, amount, TypeDefault)),
        !.liquidation_tx = Some(create_simple_tx_hash(c.funding_txid.v,
            c.funding_vout.v, lender_return_address, amount, TypeLiquidation)),
        !.recovery_tx = Some(create_simple_tx_hash(c.funding_txid.v,
            c.funding_vout.v, borrower_return_address, amount, TypeRecovery)),
        !.state = TRANSACTIONS_SIGNED]

\* create_presigned_transactions, lines 234-318: the contract as the call
\* leaves it, or the exception raised before anything is assigned
create_presigned_transactions(c, borrower_return_address, lender_return_address, loan_amount_sats, fee_rate_sat_vb) ==
    IF c.state # FUNDED THEN Raise("ValueError")
    ELSE IF Falsy(c.funding_txid) \/ ~c.funded_amount_sats.some
         THEN Raise("ValueError")
    ELSE Return(Signed(c, borrower_return_address, lender_return_address,
                       c.funded_amount_sats.v - 250 * fee_rate_sat_vb))

(***************************************************************************)
(* Inputs                                                                  *)
(***************************************************************************)
\* the example keys of src/test_keys.py
BorrowerKey ==
    <<"0","2","e","3","b","0","c","4","4","2","9","8","f","c","1","c">> \o
    <<"1","4","9","a","f","b","f","4","c","8","9","9","6","f","b","9">> \o
    <<"2","4","2","7","a","e","4","1","e","4","6","4","9","b","9","3">> \o
    <<"4","c","a","4","9","5","9","9","1","b","7","8","5","2","b","8">> \o
    <<"5","5">>
LenderKey ==
    <<"0","3","1","2","3","4","5","6","7","8","9","0","a","b","c","d">> \o
    <<"e","f","1","2","3","4","5","6","7","8","9","0","a","b","c","d">> \o
    <<"e","f","1","2","3","4","5","6","7","8","9","0","a","b","c","d">> \o
    <<"e","f","1","2","3","4","5","6","7","8","9","0","a","b","c","d">> \o
    <<"e","f">>
PlatformKey ==
    <<"0","2","a","b","c","d","e","f","1","2","3","4","5","6","7","8">> \o
    <<"9","0","a","b","c","d","e","f","1","2","3","4","5","6","7","8">> \o
    <<"9","0","a","b","c","d","e","f","1","2","3","4","5","6","7","8">> \o
    <<"9","0","a","b","c","d","e","f","1","2","3","4","5","6","7","8">> \o
    <<"9","0">>

ValidKeys == {BorrowerKey, LenderKey, PlatformKey}

\* other spellings of BorrowerKey a caller may pass
KeyWith0xPrefix == <<"0", "x">> \o BorrowerKey

KeyWithSpaces == <<" ">> \o BorrowerKey \o <<" ", " ">>

KeyWith0xInside ==
    SubSeq(BorrowerKey, 1, 2) \o <<"0", "x">> \o SubSeq(BorrowerKey, 3, 66)

KeyNonHex == [BorrowerKey EXCEPT ![7] = "g"]

KeyShort == SubSeq(BorrowerKey, 1, 64)

KeyLong == BorrowerKey \o <<"0", "0">>

KeyUncompressedPrefix == [BorrowerKey EXCEPT ![2] = "4"]

KeyEmpty == <<>>

KeyBlank == <<" ">>

KeyVariants ==
    {KeyWith0xPrefix, KeyWithSpaces, KeyWith0xInside, KeyNonHex, KeyShort,
     KeyLong, KeyUncompressedPrefix, KeyEmpty, KeyBlank}

\* key triples: every triple of the example keys, and the example triple
\* with one position replaced by another spelling
KeyTriples ==
    {<<a, b, c>> : a \in ValidKeys, b \in ValidKeys, c \in ValidKeys}
    \cup {[<<BorrowerKey, LenderKey, PlatformKey>> EXCEPT ![pos] = v] :
              pos \in 1..3, v \in KeyVariants}

Networks == {"testnet", "mainnet", "regtest"}

\* the six orders of three arguments
ArgOrders ==
    {<<1, 2, 3>>, <<1, 3, 2>>, <<2, 1, 3>>, <<2, 3, 1>>, <<3, 1, 2>>, <<3, 2, 1>>}

EscrowArgs(keys, network) ==
    [fn |-> "create_multisig_escrow", borrower |-> keys[1],
     investor |-> keys[2], platform |-> keys[3], network |-> network]

KeysOf(a) == <<a.borrower, a.investor, a.platform>>

Permuted(keys, p) == <<keys[p[1]], keys[p[2]], keys[p[3]]>>

(***************************************************************************)
(* A caller of the escrow derivation: one call of create_multisig_escrow,  *)
(* then either the same keys passed again in another order, or the         *)
(* verifier on the result.                                                 *)
(***************************************************************************)
InitEscrow ==
    /\ pc = "start"
    /\ call \in {EscrowArgs(t, n) : t \in KeyTriples, n \in Networks}
    /\ out = NoCall
    /\ call2 = NoArgs
    /\ out2 = NoCall
    /\ contract = NoContract

CreateMultisigEscrow ==
    /\ pc = "start"
    /\ call.fn = "create_multisig_escrow"
    /\ out' = create_multisig_escrow(call.borrower, call.investor,
                                     call.platform, call.network)
    /\ pc' = "returned"
    /\ UNCHANGED <<call, call2, out2, contract>>

CreateMultisigEscrowPermuted ==
    /\ pc = "returned"
    /\ call.fn = "create_multisig_escrow"
    /\ \E p \in ArgOrders :
          LET keys == Permuted(KeysOf(call), p)
          IN  /\ call2' = EscrowArgs(keys, call.network)
              /\ out2' = create_multisig_escrow(keys[1], keys[2], keys[3],
                                                call.network)
    /\ pc' = "done"
    /\ UNCHANGED <<call, out, contract>>

\* addresses and scripts a caller may hand to the verifier besides the
\* ones just derived
OtherAddress(address) ==
    IF address.some /\ address.v # <<>>
    THEN Some([address.v EXCEPT ![Len(address.v)] =
                   IF address.v[Len(address.v)] = "q" THEN "p" ELSE "q"])
    ELSE Some(<<"t", "b", "1", "q">>)

VerifyInputs(r) ==
    [address : {r.address, OtherAddress(r.address)},
     witness_script_hex : {r.witness_script, Tail(r.witness_script),
                           [r.witness_script EXCEPT ![2] = "z"],
                           r.public_keys[1]},
     network : Networks]

VerifyMultisigAddress ==
    /\ pc = "returned"
    /\ call.fn = "create_multisig_escrow"
    /\ out.exc = "none"
    /\ \E i \in VerifyInputs(out.val) :
          /\ call2' = [fn |-> "verify_multisig_address", address |-> i.address,
                       witness_script_hex |-> i.witness_script_hex,
                       network |-> i.network]
          /\ out2' = verify_multisig_address(i.address, i.witness_script_hex,
                                             i.network)
    /\ pc' = "done"
    /\ UNCHANGED <<call, out, contract>>

NextEscrow ==
    \/ CreateMultisigEscrow
    \/ CreateMultisigEscrowPermuted
    \/ VerifyMultisigAddress

SpecEscrow == InitEscrow /\ [][NextEscrow]_vars

(***************************************************************************)
(* A caller of the bech32 codec: one call of encode_bech32_address (or an  *)
(* escrow derivation, which encodes its script hash), then the address     *)
(* handed to decode_bech32_to_scriptpubkey, as produced or with one        *)
(* character replaced.                                                     *)
(***************************************************************************)
MaxProgLen == 41

NumSeeds == 2

\* a witness program of n bytes
Prog(n, s) == [k \in 1..n |-> (s * 97 + k * k * s * 13 + k * 59) % 256]

ProgLens == {0, 1, 2, 3, 20, 32, 40, MaxProgLen}

\* byte strings, and one list holding a value that is no byte
Programs ==
    {Prog(n, s) : n \in ProgLens, s \in 0..(NumSeeds - 1)} \cup {<<1, 256, 3>>}

Hrps == {<<"t", "b">>, <<"b", "c">>}

Witvers == {0, 1}

\* characters written over one character of an address
ReplacementChars == {"q", "p", "l", "1", "b"}

InitBech32 ==
    /\ pc = "start"
    /\ call \in [fn : {"encode_bech32_address"}, hrp : Hrps,
                 witver : Witvers, witprog : Programs]
             \cup {EscrowArgs(<<BorrowerKey, LenderKey, PlatformKey>>, n) :
                      n \in {"testnet", "mainnet"}}
    /\ out = NoCall
    /\ call2 = NoArgs
    /\ out2 = NoCall
    /\ contract = NoContract

EncodeBech32Address ==
    /\ pc = "start"
    /\ call.fn = "encode_bech32_address"
    /\ out' = encode_bech32_address(call.hrp, call.witver, call.witprog)
    /\ pc' = "returned"
    /\ UNCHANGED <<call, call2, out2, contract>>

\* the address the first call produced, when it produced one
HasAddress ==
    \/ call.fn = "encode_bech32_address" /\ out.some
    \/ call.fn = "create_multisig_escrow" /\ out.exc = "none"
       /\ out.val.address.some

ProducedAddress ==
    IF call.fn = "encode_bech32_address" THEN out.v ELSE out.val.address.v

DecodeBech32ToScriptpubkey ==
    /\ pc = "returned"
    /\ HasAddress
    /\ call2' = [fn |-> "decode_bech32_to_scriptpubkey",
                 address |-> ProducedAddress, replaced |-> 0]
    /\ out2' = decode_bech32_to_scriptpubkey(ProducedAddress)
    /\ pc' = "done"
    /\ UNCHANGED <<call, out, contract>>

DecodeReplacedCharacter ==
    /\ pc = "returned"
    /\ HasAddress
    /\ \E pos \in 1..Len(ProducedAddress), c \in ReplacementChars :
          /\ c # ProducedAddress[pos]
          /\ call2' = [fn |-> "decode_bech32_to_scriptpubkey",
                       address |-> [ProducedAddress EXCEPT ![pos] = c],
                       replaced |-> pos]
          /\ out2' = decode_bech32_to_scriptpubkey(
                         [ProducedAddress EXCEPT ![pos] = c])
    /\ pc' = "done"
    /\ UNCHANGED <<call, out, contract>>

NextBech32 ==
    \/ EncodeBech32Address
    \/ CreateMultisigEscrow
    \/ DecodeBech32ToScriptpubkey
    \/ DecodeReplacedCharacter

SpecBech32 == InitBech32 /\ [][NextBech32]_vars

(***************************************************************************)
(* A caller of create_timelocked_witness_script: one call, then the same   *)
(* keys passed again in another order.                                     *)
(***************************************************************************)
RecoveryBlocks == {0, 16, DEFAULT_RECOVERY_BLOCKS, 65535, -1}

TimelockArgs(keys, blocks) ==
    [fn |-> "create_timelocked_witness_script", borrower |-> keys[1],
     investor |-> keys[2], platform |-> keys[3], recovery_blocks |-> blocks]

InitTimelock ==
    /\ pc = "start"
    /\ call \in {TimelockArgs(t, b) : t \in KeyTriples, b \in RecoveryBlocks}
    /\ out = NoCall
    /\ call2 = NoArgs
    /\ out2 = NoCall
    /\ contract = NoContract

CreateTimelockedWitnessScript ==
    /\ pc = "start"
    /\ call.fn = "create_timelocked_witness_script"
    /\ out' = create_timelocked_witness_script(call.borrower, call.investor,
                  call.platform, call.recovery_blocks)
    /\ pc' = "returned"
    /\ UNCHANGED <<call, call2, out2, contract>>

CreateTimelockedWitnessScriptPermuted ==
    /\ pc = "returned"
    /\ call.fn = "create_timelocked_witness_script"
    /\ \E p \in ArgOrders :
          LET keys == Permuted(KeysOf(call), p)
          IN  /\ call2' = TimelockArgs(keys, call.recovery_blocks)
              /\ out2' = create_timelocked_witness_script(keys[1], keys[2],
                             keys[3], call.recovery_blocks)
    /\ pc' = "done"
    /\ UNCHANGED <<call, out, contract>>

NextTimelock ==
    \/ CreateTimelockedWitnessScript
    \/ CreateTimelockedWitnessScriptPermuted

SpecTimelock == InitTimelock /\ [][NextTimelock]_vars

(***************************************************************************)
(* A caller of the PSBT builders: one call of create_unsigned_psbt or of   *)
(* generate_psbt_templates (as main does at bitcoin_escrow.py:827).        *)
(***************************************************************************)
ExampleEscrow ==
    create_multisig_escrow(BorrowerKey, LenderKey, PlatformKey, "testnet").val

ExampleTimelocked ==
    create_timelocked_witness_script(BorrowerKey, LenderKey, PlatformKey,
                                     DEFAULT_RECOVERY_BLOCKS).val

\* destinations: a testnet P2WSH address, a mainnet P2WPKH address, a
\* bech32 address of another prefix, a base58-looking string, and two
\* strings with a known prefix and a broken data part
TestnetAddress == ExampleEscrow.address.v

MainnetAddress == encode_bech32_address(<<"b", "c">>, 0, Prog(20, 1)).v

OtherPrefixAddress == encode_bech32_address(<<"l", "t", "c">>, 0, Prog(20, 1)).v

LegacyAddress == <<"2", "N", "3", "o", "e", "f", "V", "e", "E", "x">>

PrefixOnlyAddress == <<"t", "b", "1">>

BadCharsetAddress == [TestnetAddress EXCEPT ![10] = "b"]

Destinations ==
    {TestnetAddress, MainnetAddress, OtherPrefixAddress, LegacyAddress,
     PrefixOnlyAddress, BadCharsetAddress}

\* 2^32 - 1, 2^32, 2^64 - 1 and 2^64
MaxU32 == [neg |-> FALSE, mag |-> <<255, 255, 255, 255>>]

TwoTo32 == [neg |-> FALSE, mag |-> <<0, 0, 0, 0, 1>>]

MaxU64 == [neg |-> FALSE, mag |-> [k \in 1..8 |-> 255]]

TwoTo64 == [neg |-> FALSE, mag |-> <<0, 0, 0, 0, 0, 0, 0, 0, 1>>]

ZeroTxid == [k \in 1..64 |-> "0"]

\* a txid whose bytes are 01 02 .. 20 (hex)
CountingTxid == Hex([k \in 1..32 |-> k])

Txids ==
    {ZeroTxid, CountingTxid, SubSeq(CountingTxid, 1, 62),
     CountingTxid \o <<"f", "f">>, [CountingTxid EXCEPT ![5] = "g"], <<>>}

Vouts == {PyInt(0), PyInt(1), MaxU32, TwoTo32, PyInt(-1)}

Values == {PyInt(100000), PyInt(0), MaxU64, TwoTo64, PyInt(-1)}

OutputValues == {PyInt(99500), MaxU64, TwoTo64, PyInt(-1)}

\* a script of 300 bytes, longer than one length byte can announce
LongScript == Hex([k \in 1..300 |-> (k * 7) % 256])

WitnessScripts ==
    {ExampleEscrow.witness_script, ExampleTimelocked.witness_script,
     LongScript, Tail(ExampleEscrow.witness_script)}

SequenceNumbers == {SequenceFinal, PyInt(DEFAULT_RECOVERY_BLOCKS), TwoTo32}

Output(address, value) == [address |-> address, value |-> value]

\* lists of one, two and three outputs; in the longer ones one position
\* holds any destination and the others the testnet address
OutputLists ==
    {<<>>}
    \cup {<<Output(a, v)>> : a \in Destinations, v \in OutputValues}
    \cup {[<<Output(TestnetAddress, PyInt(60000)),
             Output(TestnetAddress, PyInt(39500))>> EXCEPT ![pos] =
              Output(a, PyInt(1000))] : pos \in 1..2, a \in Destinations}
    \cup {[<<Output(TestnetAddress, PyInt(50000)),
             Output(MainnetAddress, PyInt(30000)),
             Output(TestnetAddress, PyInt(19500))>> EXCEPT ![pos] =
              Output(a, PyInt(1000))] : pos \in 1..3, a \in Destinations}

PsbtArgs(txid, vout, value, script, outputs, sequence, network) ==
    [fn |-> "create_unsigned_psbt", input_txid |-> txid, input_vout |-> vout,
     input_value |-> value, witness_script_hex |-> script,
     outputs |-> outputs, sequence |-> sequence, network |-> network]

BaseOutputs == <<Output(TestnetAddress, PyInt(99500))>>

\* calls that vary the outpoint, the values and outputs, or the script,
\* sequence and network, the other arguments being those of a plain spend
PsbtCalls ==
    {PsbtArgs(t, v, PyInt(100000), ExampleEscrow.witness_script, BaseOutputs,
              SequenceFinal, "testnet") : t \in Txids, v \in Vouts}
    \cup {PsbtArgs(CountingTxid, PyInt(0), v, ExampleEscrow.witness_script, o,
                   SequenceFinal, "testnet") : v \in Values, o \in OutputLists}
    \cup {PsbtArgs(CountingTxid, PyInt(1), PyInt(100000), s, BaseOutputs, q, n) :
              s \in WitnessScripts, q \in SequenceNumbers, n \in {"testnet", "mainnet"}}

Margin == 2

\* UTXO values around the point where the fee and the dust floor meet, and
\* some away from it
InputValues ==
    {-1, 0, 1, 1800, 100000, 100500}
    \cup (FeeEstimate + DustLimit - Margin)..(FeeEstimate + DustLimit + Margin)

TemplateArgs(b, l, txid, vout, value, blocks, network) ==
    [fn |-> "generate_psbt_templates", escrow_result |-> ExampleEscrow,
     borrower_address |-> b, lender_address |-> l, input_txid |-> txid,
     input_vout |-> vout, input_value |-> value, recovery_blocks |-> blocks,
     network |-> network]

TemplateCalls ==
    {TemplateArgs(b, l, CountingTxid, PyInt(0), v, r, "testnet") :
        b \in {TestnetAddress, LegacyAddress},
        l \in {TestnetAddress, MainnetAddress, OtherPrefixAddress},
        v \in InputValues, r \in {DEFAULT_RECOVERY_BLOCKS, 144, -1}}
    \cup {TemplateArgs(TestnetAddress, MainnetAddress, t, PyInt(0), 100000,
                       DEFAULT_RECOVERY_BLOCKS, "mainnet") : t \in Txids}

InitPsbt ==
    /\ pc = "start"
    /\ call \in PsbtCalls \cup TemplateCalls
    /\ out = NoCall
    /\ call2 = NoArgs
    /\ out2 = NoCall
    /\ contract = NoContract

CreateUnsignedPsbt ==
    /\ pc = "start"
    /\ call.fn = "create_unsigned_psbt"
    /\ out' = create_unsigned_psbt(call.input_txid, call.input_vout,
                  call.input_value, call.witness_script_hex, call.outputs,
                  call.sequence, call.network)
    /\ pc' = "returned"
    /\ UNCHANGED <<call, call2, out2, contract>>

GeneratePsbtTemplates ==
    /\ pc = "start"
    /\ call.fn = "generate_psbt_templates"
    /\ out' = generate_psbt_templates(call.escrow_result,
                  call.borrower_address, call.lender_address,
                  call.input_txid, call.input_vout, call.input_value,
                  call.recovery_blocks, call.network)
    /\ pc' = "returned"
    /\ UNCHANGED <<call, call2, out2, contract>>

NextPsbt ==
    \/ CreateUnsignedPsbt
    \/ GeneratePsbtTemplates

SpecPsbt == InitPsbt /\ [][NextPsbt]_vars

(***************************************************************************)
(* The life of one escrow contract: created once, then funded and          *)
(* pre-signed by any sequence of calls.                                    *)
(***************************************************************************)
FundingTxids == {<<>>, ZeroTxid, CountingTxid}

FundedAmounts == {0, 100000}

FeeRates == {1, 10}

InitContract ==
    /\ pc = "start"
    /\ call = NoArgs
    /\ out = NoCall
    /\ call2 = NoArgs
    /\ out2 = NoCall
    /\ contract = NoContract

CreateEscrowContract ==
    /\ contract = NoContract
    /\ \E keys \in {<<BorrowerKey, LenderKey>>, <<LenderKey, BorrowerKey>>},
          platform_pubkey \in {PlatformKey, KeyNonHex},
          network \in {"testnet", "mainnet"} :
          /\ call' = [fn |-> "create_escrow_contract",
                      platform_pubkey |-> platform_pubkey,
                      network |-> network]
          /\ out' = create_escrow_contract(keys[1], keys[2], platform_pubkey,
                                           network)
          /\ contract' = IF out'.exc = "none" THEN out'.val ELSE contract
    /\ pc' = "returned"
    /\ UNCHANGED <<call2, out2>>

UpdateContractWithFunding ==
    /\ contract # NoContract
    /\ \E funding_txid \in FundingTxids, funded_amount_sats \in FundedAmounts :
          /\ call' = [fn |-> "update_contract_with_funding",
                      funding_txid |-> funding_txid, funding_vout |-> 0,
                      funded_amount_sats |-> funded_amount_sats]
          /\ contract' = update_contract_with_funding(contract, funding_txid,
                             0, funded_amount_sats)
          /\ out' = Return(contract')
    /\ pc' = "returned"
    /\ UNCHANGED <<call2, out2>>

CreatePresignedTransactions ==
    /\ contract # NoContract
    /\ \E fee_rate_sat_vb \in FeeRates :
          /\ call' = [fn |-> "create_presigned_transactions",
                      borrower_return_address |-> TestnetAddress,
                      lender_return_address |-> MainnetAddress,
                      loan_amount_sats |-> 50000,
                      fee_rate_sat_vb |-> fee_rate_sat_vb]
          /\ out' = create_presigned_transactions(contract, TestnetAddress,
                        MainnetAddress, 50000, fee_rate_sat_vb)
          /\ contract' = IF out'.exc = "none" THEN out'.val ELSE contract
    /\ pc' = "returned"
    /\ UNCHANGED <<call2, out2>>

NextContract ==
    \/ CreateEscrowContract
    \/ UpdateContractWithFunding
    \/ CreatePresignedTransactions

SpecContract == InitContract /\ [][NextContract]_vars

(***************************************************************************)
(* Callers of push_int                                                     *)
(***************************************************************************)
\* the small values, the values around each change of length or of sign
\* byte, the default timelock, and negative values
PushIntValues ==
    (-3..300)
    \cup {DEFAULT_RECOVERY_BLOCKS, 32767, 32768, 65535, 65536, 8388607,
          8388608, 16777215, 16777216, 2147483647, -4320}

InitPushInt ==
    /\ pc = "start"
    /\ call \in {[fn |-> "push_int", value |-> v] : v \in PushIntValues}
    /\ out = NoCall
    /\ call2 = NoArgs
    /\ out2 = NoCall
    /\ contract = NoContract

PushInt ==
    /\ pc = "start"
    /\ call.fn = "push_int"
    /\ out' = push_int(call.value)
    /\ pc' = "returned"
    /\ UNCHANGED <<call, call2, out2, contract>>

NextPushInt == PushInt

SpecPushInt == InitPushInt /\ [][NextPushInt]_vars

(***************************************************************************)
(* Callers of decode_bech32_to_scriptpubkey with arbitrary strings         *)
(***************************************************************************)
\* address[:n]
Truncated(address, n) == SubSeq(address, 1, n)

\* the address with the character at index k (from 1) replaced
WithChar(address, k, c) == [address EXCEPT ![k] = c]

\* every prefix of two addresses, the testnet address with one character
\* replaced by "b" (which is not in the charset) or by "1", and strings with
\* the separator in front
DecodeInputs ==
    {Truncated(TestnetAddress, n) : n \in 0..Len(TestnetAddress)}
    \cup {Truncated(MainnetAddress, n) : n \in 0..Len(MainnetAddress)}
    \cup {WithChar(TestnetAddress, k, c) :
              k \in 1..Len(TestnetAddress), c \in {"b", "1"}}
    \cup {<<"1">>, <<"1">> \o SubSeq(TestnetAddress, 4, 20)}

InitDecode ==
    /\ pc = "start"
    /\ call \in {[fn |-> "decode_bech32_to_scriptpubkey", address |-> a] :
                    a \in DecodeInputs}
    /\ out = NoCall
    /\ call2 = NoArgs
    /\ out2 = NoCall
    /\ contract = NoContract

DecodeAddress ==
    /\ pc = "start"
    /\ call.fn = "decode_bech32_to_scriptpubkey"
    /\ out' = decode_bech32_to_scriptpubkey(call.address)
    /\ pc' = "returned"
    /\ UNCHANGED <<call, call2, out2, contract>>

NextDecode == DecodeAddress

SpecDecode == InitDecode /\ [][NextDecode]_vars

(***************************************************************************)
(* Callers that vary the lengths written into a PSBT                       *)
(***************************************************************************)
\* lengths on both sides of 0xfd and of 0xffff
DataLengths == (0..300) \cup {65535, 65536}

DataOf(length) == [k \in 1..length |-> (k * 7) % 256]

\* a bech32 string for a witness program of n bytes
AddressOfProgram(n) == encode_bech32_address(<<"t", "b">>, 0, Prog(n, 1)).v

\* program lengths whose scriptPubKey is 22, 34, 42 and 252..256 bytes long
ProgramLengths == {20, 32, 40, 250, 251, 252, 253, 254}

LengthCalls ==
    {[fn |-> "write_with_length", stream |-> s, length |-> n] :
         s \in {<<>>, <<1, 0>>}, n \in DataLengths}
    \cup {PsbtArgs(CountingTxid, PyInt(0), PyInt(100000),
                   ExampleEscrow.witness_script,
                   <<Output(AddressOfProgram(n), PyInt(99500))>>,
                   SequenceFinal, "testnet") : n \in ProgramLengths}
    \cup {PsbtArgs(CountingTxid, PyInt(0), PyInt(100000),
                   ExampleEscrow.witness_script,
                   <<Output(AddressOfProgram(n), PyInt(60000)),
                     Output(TestnetAddress, PyInt(39500))>>,
                   SequenceFinal, "testnet") : n \in ProgramLengths}

InitLengths ==
    /\ pc = "start"
    /\ call \in LengthCalls
    /\ out = NoCall
    /\ call2 = NoArgs
    /\ out2 = NoCall
    /\ contract = NoContract

WriteWithLength ==
    /\ pc = "start"
    /\ call.fn = "write_with_length"
    /\ out' = Return(write_with_length(call.stream, DataOf(call.length)))
    /\ pc' = "returned"
    /\ UNCHANGED <<call, call2, out2, contract>>

NextLengths ==
    \/ WriteWithLength
    \/ CreateUnsignedPsbt

SpecLengths == InitLengths /\ [][NextLengths]_vars

(***************************************************************************)
(* All callers                                                             *)
(***************************************************************************)
Init == InitEscrow \/ InitBech32 \/ InitTimelock \/ InitPsbt \/ InitContract
        \/ InitPushInt \/ InitDecode
        \/ InitLengths

Next ==
    \/ CreateMultisigEscrow
    \/ CreateMultisigEscrowPermuted
    \/ VerifyMultisigAddress
    \/ EncodeBech32Address
    \/ DecodeBech32ToScriptpubkey
    \/ DecodeReplacedCharacter
    \/ CreateTimelockedWitnessScript
    \/ CreateTimelockedWitnessScriptPermuted
    \/ CreateUnsignedPsbt
    \/ GeneratePsbtTemplates
    \/ CreateEscrowContract
    \/ UpdateContractWithFunding
    \/ CreatePresignedTransactions
    \/ PushInt
    \/ DecodeAddress
    \/ WriteWithLength

Spec == Init /\ [][Next]_vars

(***************************************************************************)
(* Properties                                                              *)
(***************************************************************************)
EscrowReturned ==
    pc # "start" /\ call.fn = "create_multisig_escrow" /\ out.exc = "none"

ReorderedEscrow ==
    pc = "done" /\ call.fn = "create_multisig_escrow"
    /\ call2.fn = "create_multisig_escrow"

\* C1: when create_multisig_escrow succeeds on three keys, the call with the
\* same keys in any other argument order and the same network succeeds too
\* and returns the same witness_script, script_hash, script_pubkey, address
\* and sorted public_keys.
C1_EscrowOrderIndependent ==
    (ReorderedEscrow /\ out.exc = "none") =>
        /\ out2.exc = "none"
        /\ out2.val.witness_script = out.val.witness_script
        /\ out2.val.script_hash = out.val.script_hash
        /\ out2.val.script_pubkey = out.val.script_pubkey
        /\ out2.val.address = out.val.address
        /\ out2.val.public_keys = out.val.public_keys

\* three distinct keys, passed a second time in a different order
C1_Witness ==
    /\ ReorderedEscrow
    /\ out.exc = "none"
    /\ out2.exc = "none"
    /\ Cardinality({call.borrower, call.investor, call.platform}) = 3
    /\ KeysOf(call2) # KeysOf(call)
    /\ out.val.address.some

TimelockReordered ==
    pc = "done" /\ call.fn = "create_timelocked_witness_script"
    /\ call2.fn = "create_timelocked_witness_script"

\* C2, as stated: every reordering of the three keys over the arguments of
\* create_timelocked_witness_script gives the same witness_script and
\* script_hash.
C2_AnyOrderSameScript ==
    (TimelockReordered /\ out.exc = "none"
       /\ KeysOf(call) \in ValidKeys \X ValidKeys \X ValidKeys) =>
        /\ out2.exc = "none"
        /\ out2.val.witness_script = out.val.witness_script
        /\ out2.val.script_hash = out.val.script_hash

\* C2: a reordering of the keys that leaves the borrower argument in place
\* (investor and platform exchanged) gives the same witness_script and
\* script_hash; the borrower key sits in the recovery branch of the script,
\* so the script depends on which key is the borrower.
C2_SameBorrowerSameScript ==
    (TimelockReordered /\ out.exc = "none"
       /\ call2.borrower = call.borrower) =>
        /\ out2.exc = "none"
        /\ out2.val.witness_script = out.val.witness_script
        /\ out2.val.script_hash = out.val.script_hash

\* investor and platform are different keys and have been exchanged
C2_Witness ==
    /\ TimelockReordered
    /\ out.exc = "none"
    /\ call2.borrower = call.borrower
    /\ call2.investor = call.platform
    /\ call2.platform = call.investor
    /\ call.investor # call.platform
    /\ out2.exc = "none"

\* the script of a result, as bytes
ScriptBytes(r) == FromHex(r.witness_script).val

\* OP_1..OP_16 are 0x51..0x60
ThresholdOf(script) == script[1] - 80

TotalOf(script) == script[Len(script) - 1] - 80

\* OP_CHECKMULTISIG succeeds with valid signatures for the key slots S
SlotsSatisfy(script, S) == Cardinality(S) >= ThresholdOf(script)

Replaced ==
    pc = "done" /\ call2.fn = "decode_bech32_to_scriptpubkey"
    /\ call2.replaced > 0

\* C4: decoding an address in which one character has been replaced by a
\* different one fails.
C4_ReplacedCharacterRejected ==
    (Replaced /\ call.fn = "encode_bech32_address") => out2.exc # "none"

\* the symbols of an address after the separator
SymbolsOf(address, hrp) ==
    [k \in 1..(Len(address) - Len(hrp) - 1) |->
        CharsetIndex(address[Len(hrp) + 1 + k])]

\* C5: the symbols of every address encode_bech32_address produces: the
\* version symbol, the program in 5-bit groups and six checksum symbols,
\* pass bech32_verify_checksum, that is the polymod of the expanded hrp
\* followed by them is 1.
C5_ChecksumValid ==
    (pc = "returned" /\ call.fn = "encode_bech32_address" /\ out.some) =>
        LET data == SymbolsOf(out.v, call.hrp)
        IN  /\ SubSeq(out.v, 1, Len(call.hrp) + 1) = call.hrp \o <<"1">>
            /\ Len(data) = 1 + ((8 * Len(call.witprog) + 4) \div 5) + 6
            /\ data[1] = call.witver
            /\ bech32_verify_checksum(call.hrp, data)
            /\ bech32_polymod(bech32_hrp_expand(call.hrp) \o data) = 1

C5_Witness ==
    /\ pc = "returned"
    /\ call.fn = "encode_bech32_address"
    /\ out.some
    /\ Len(call.witprog) = 32
    /\ call.hrp = <<"b", "c">>

Decoded ==
    pc = "done" /\ call2.fn = "decode_bech32_to_scriptpubkey"
    /\ call2.replaced = 0

\* C6: decoding the address encoded from a 32-byte hash h with witness
\* version 0 returns the 34 bytes 0x00 0x20 h, and decoding the address of
\* an escrow returns the script_pubkey the escrow reports.
C6_AddressRoundTrip ==
    /\ (Decoded /\ call.fn = "encode_bech32_address" /\ call.witver = 0
          /\ Len(call.witprog) = 32) =>
           /\ out2 = Return(<<0, 32>> \o call.witprog)
           /\ Len(out2.val) = 34
    /\ (Decoded /\ call.fn = "create_multisig_escrow") =>
           /\ out2.exc = "none"
           /\ Len(out2.val) = 34
           /\ Hex(out2.val) = out.val.script_pubkey
           /\ Hex(SubSeq(out2.val, 3, 34)) = out.val.script_hash

C6_Witness ==
    /\ Decoded
    /\ call.fn = "encode_bech32_address"
    /\ call.witver = 0
    /\ Len(call.witprog) = 32
    /\ out2.exc = "none"
    /\ SubSeq(out2.val, 3, 34) = call.witprog

Verified ==
    pc = "done" /\ call.fn = "create_multisig_escrow"
    /\ call2.fn = "verify_multisig_address"

\* C7: the verifier returns True on the address and witness_script of a
\* successful create_multisig_escrow, given the network of that call.
C7_VerifierRoundTrip ==
    (Verified /\ call2.address = out.val.address
       /\ call2.witness_script_hex = out.val.witness_script
       /\ call2.network = call.network) =>
        out2 = Return(TRUE)

C7_Witness ==
    /\ Verified
    /\ call.network = "mainnet"
    /\ call2.network = "mainnet"
    /\ call2.address = out.val.address
    /\ call2.witness_script_hex = out.val.witness_script
    /\ out2 = Return(TRUE)

\* the address recomputed from a script in hex, for a known network
Recomputed(witness_script_hex, network) ==
    encode_bech32_address(
        IF network = "testnet" THEN <<"t", "b">> ELSE <<"b", "c">>, 0,
        sha256(FromHex(witness_script_hex).val))

VerifyMustFail(c) ==
    \/ c.network \notin {"testnet", "mainnet"}
    \/ FromHex(c.witness_script_hex).exc # "none"
    \/ Recomputed(c.witness_script_hex, c.network) # c.address

\* C8: verify_multisig_address never raises: it returns a boolean for any
\* address, script string and network string, and returns False when the
\* network is unknown, when the script string is not hex (the recomputation
\* fails) and when the recomputed address differs from the given one.
C8_VerifierNeverRaises ==
    Verified =>
        /\ out2.exc = "none"
        /\ out2.val \in BOOLEAN
        /\ VerifyMustFail(call2) => out2.val = FALSE

\* a script string of odd length on a known network
C8_Witness ==
    /\ Verified
    /\ call2.network \in {"testnet", "mainnet"}
    /\ FromHex(call2.witness_script_hex).exc # "none"
    /\ out2 = Return(FALSE)

\* C9: encode_bech32_address produces no address for a witness program
\* shorter than 2 or longer than 40 bytes.
C9_ProgramLengthBound ==
    (pc # "start" /\ call.fn = "encode_bech32_address"
       /\ Len(call.witprog) \notin 2..40) =>
        ~out.some

\* a key string cleaned as specified: surrounding whitespace stripped, then
\* one leading 0x removed
CleanedAsSpecified(hex_key) ==
    LET s == Strip(hex_key)
    IN  IF Len(s) >= 2 /\ s[1] = "0" /\ s[2] = "x"
        THEN SubSeq(s, 3, Len(s)) ELSE s

InvalidAsSpecified(hex_key) ==
    LET c == CleanedAsSpecified(hex_key)
    IN  \/ hex_key = <<>>
        \/ \E k \in 1..Len(c) : c[k] \notin HexDigits
        \/ Len(c) # 66
        \/ ~(c[1] = "0" /\ c[2] \in {"2", "3"})

\* C10: create_multisig_escrow raises, and returns nothing, when any one of
\* its three keys is empty, holds a character that is no hex digit, is not
\* 66 hex characters long after cleaning, or does not start with 02 or 03.
C10_InvalidKeyAborts ==
    (pc # "start" /\ call.fn = "create_multisig_escrow"
       /\ \E k \in 1..3 : InvalidAsSpecified(KeysOf(call)[k])) =>
        /\ out.exc # "none"
        /\ out.val = <<>>

\* a key string in which 0x occurs somewhere else than as the prefix, so
\* that an x is left after the cleaning as specified
HasInner0x(hex_key) ==
    \E k \in 1..Len(CleanedAsSpecified(hex_key)) :
        CleanedAsSpecified(hex_key)[k] = "x"

\* C11: create_multisig_escrow raises on a key string in which the
\* characters 0x occur anywhere other than as the prefix; such a string is
\* never accepted as a key.
C11_Inner0xRejected ==
    (pc # "start" /\ call.fn = "create_multisig_escrow"
       /\ \E k \in 1..3 : HasInner0x(KeysOf(call)[k])) =>
        out.exc = "ValueError"

(***************************************************************************)
(* Reading a PSBT back                                                     *)
(***************************************************************************)
Base64Index(c) ==
    IF c = "=" THEN 0 ELSE (CHOOSE k \in 1..64 : Base64Alphabet[k] = c) - 1

\* the bytes a base64 string stands for
b64decode(s) ==
    LET n       == Len(s)
        pad     == IF n = 0 THEN 0
                   ELSE IF s[n] # "=" THEN 0
                   ELSE IF s[n - 1] # "=" THEN 1 ELSE 2
        quad(g) == Base64Index(s[4 * g + 1]) * 262144
                   + Base64Index(s[4 * g + 2]) * 4096
                   + Base64Index(s[4 * g + 3]) * 64
                   + Base64Index(s[4 * g + 4])
    IN  [k \in 1..(3 * (n \div 4) - pad) |->
            (quad((k - 1) \div 3) \div Pow2(8 * (2 - ((k - 1) % 3)))) % 256]

\* an integer of the given number of bytes, little-endian
LittleEndian(v, width) ==
    [k \in 1..width |-> IF k <= Len(v.mag) THEN v.mag[k] ELSE 0]

InRange(v, width) == ~v.neg /\ Len(v.mag) <= width

\* the canonical CompactSize of a number below 2^31
CompactSize(n) ==
    IF n < 253 THEN <<n>>
    ELSE IF n <= 65535 THEN <<253, n % 256, n \div 256>>
    ELSE <<254, n % 256, (n \div 256) % 256, (n \div 65536) % 256,
           n \div 16777216>>

Prefixed(bytes) == CompactSize(Len(bytes)) \o bytes

HasKnownPrefix(address) ==
    Len(address) >= 3
    /\ SubSeq(address, 1, 3) \in {<<"t", "b", "1">>, <<"b", "c", "1">>}

RECURSIVE ExpectedOutputs(_)
ExpectedOutputs(outputs) ==
    IF outputs = <<>> THEN <<>>
    ELSE LittleEndian(Head(outputs).value, 8)
         \o Prefixed(decode_bech32_to_scriptpubkey(Head(outputs).address).val)
         \o ExpectedOutputs(Tail(outputs))

ExpectedTx(c) ==
    <<2, 0, 0, 0>> \o <<1>> \o Reverse(FromHex(c.input_txid).val)
    \o LittleEndian(c.input_vout, 4) \o <<0>> \o LittleEndian(c.sequence, 4)
    \o <<Len(c.outputs)>> \o ExpectedOutputs(c.outputs) \o <<0, 0, 0, 0>>

ExpectedPsbt(c) ==
    <<112, 115, 98, 116, 255>>
    \o <<1, 0>> \o Prefixed(ExpectedTx(c)) \o <<0>>
    \o <<1, 1>>
    \o Prefixed(LittleEndian(c.input_value, 8)
                \o Prefixed(<<0, 32>> \o sha256(FromHex(c.witness_script_hex).val)))
    \o <<1, 5>> \o Prefixed(FromHex(c.witness_script_hex).val) \o <<0>>
    \o [k \in 1..Len(c.outputs) |-> 0]

ValidPsbtCall(c) ==
    /\ FromHex(c.input_txid).exc = "none"
    /\ Len(FromHex(c.input_txid).val) = 32
    /\ InRange(c.input_vout, 4)
    /\ InRange(c.input_value, 8)
    /\ InRange(c.sequence, 4)
    /\ FromHex(c.witness_script_hex).exc = "none"
    /\ Len(c.outputs) >= 1
    /\ \A k \in 1..Len(c.outputs) :
          /\ InRange(c.outputs[k].value, 8)
          /\ HasKnownPrefix(c.outputs[k].address)
          /\ decode_bech32_to_scriptpubkey(c.outputs[k].address).exc = "none"

PsbtReturned == pc = "returned" /\ call.fn = "create_unsigned_psbt"

\* C12: for valid inputs create_unsigned_psbt returns the base64 of exactly:
\* the magic 70 73 62 74 ff; the global entry 01 00 whose value is the
\* unsigned transaction (version 2, one input with the reversed txid, the
\* vout, an empty scriptSig and the sequence, the outputs in order,
\* locktime 0), then 00; the input entries 01 01 (8-byte little-endian
\* input value and the length-prefixed 00 20 hash of the witness script)
\* and 01 05 (the witness script), then 00; then one 00 per output.
C12_PsbtLayout ==
    (PsbtReturned /\ ValidPsbtCall(call)) =>
        /\ out.exc = "none"
        /\ b64decode(out.val) = ExpectedPsbt(call)

\* three outputs, a txid that reads differently backwards
C12_Witness ==
    /\ PsbtReturned
    /\ ValidPsbtCall(call)
    /\ Len(call.outputs) = 3
    /\ call.input_txid = CountingTxid
    /\ out.exc = "none"
    /\ Len(out.val) > 0

\* C13: create_unsigned_psbt raises and returns nothing when some output,
\* at any position, has an address that starts with neither tb1 nor bc1.
C13_UnsupportedDestination ==
    (PsbtReturned
       /\ \E k \in 1..Len(call.outputs) :
             ~HasKnownPrefix(call.outputs[k].address)) =>
        /\ out.exc # "none"
        /\ out.val = <<>>

\* the last of three outputs is a bech32 address of another prefix
C13_Witness ==
    /\ PsbtReturned
    /\ Len(call.outputs) = 3
    /\ call.outputs[3].address = OtherPrefixAddress
    /\ HasKnownPrefix(call.outputs[1].address)
    /\ HasKnownPrefix(call.outputs[2].address)
    /\ InRange(call.input_value, 8)
    /\ out.exc = "ValueError"

TemplatesReturned == pc = "returned" /\ call.fn = "generate_psbt_templates"

\* the unsigned transaction inside a PSBT whose transaction is shorter
\* than 253 bytes
TxOf(psbt) == LET bytes == b64decode(psbt) IN SubSeq(bytes, 9, 8 + bytes[8])

\* the 8-byte little-endian value at an offset, when below 2^31
ValueAt(tx, offset) ==
    IF tx[offset + 3] < 128 /\ \A k \in 4..7 : tx[offset + k] = 0
    THEN tx[offset] + 256 * tx[offset + 1] + 65536 * tx[offset + 2]
         + 16777216 * tx[offset + 3]
    ELSE -1

\* the values of the outputs of a transaction with one input and one or
\* two outputs: after the 14 bytes around a txid of n bytes comes the
\* output count, and an output is 8 bytes of value, a length byte and a
\* script
OutputValuesOf(tx, n) ==
    IF tx[15 + n] = 1 THEN <<ValueAt(tx, 16 + n)>>
    ELSE <<ValueAt(tx, 16 + n), ValueAt(tx, 16 + n + 9 + tx[24 + n])>>

\* the output values of a PSBT made for a call
ValuesIn(psbt, c) ==
    OutputValuesOf(TxOf(psbt), Len(FromHex(c.input_txid).val))

FlooredValue(input_value) ==
    IF input_value - 500 >= 546 THEN input_value - 500 ELSE 546

\* C14: in the result of generate_psbt_templates the single output of
\* psbt_repayment, psbt_default and psbt_recovery is worth
\* max(input_value - 500, 546), and the two outputs of psbt_liquidation
\* add up to that value.
C14_FeeAndDustFloor ==
    (TemplatesReturned /\ out.exc = "none") =>
        /\ \A p \in {out.val.psbt_repayment, out.val.psbt_default,
                     out.val.psbt_recovery} :
              ValuesIn(p, call) = <<FlooredValue(call.input_value)>>
        /\ LET shares == ValuesIn(out.val.psbt_liquidation, call)
           IN  /\ Len(shares) = 2
               /\ shares[1] >= 0
               /\ shares[2] >= 0
               /\ shares[1] + shares[2] = FlooredValue(call.input_value)

\* an input worth less than fee and dust together: the floor applies
C14_Witness ==
    /\ TemplatesReturned
    /\ out.exc = "none"
    /\ call.input_value = 1045
    /\ ValuesIn(out.val.psbt_repayment, call) = <<546>>

\* C15: generate_psbt_templates fails and returns no PSBT when input_value
\* is at most 1046, the fee estimate plus the dust limit.
C15_InsufficientValueRejected ==
    (TemplatesReturned /\ call.input_value <= 1046) =>
        /\ out.exc # "none"
        /\ out.val = <<>>

\* C16: create_unsigned_psbt raises and returns no PSBT when input_txid
\* does not decode to exactly 32 bytes, when input_vout does not fit 32
\* bits, or when input_value or an output value does not fit 64 bits.
C16_MalformedInputRejected ==
    (PsbtReturned
       /\ \/ FromHex(call.input_txid).exc # "none"
          \/ Len(FromHex(call.input_txid).val) # 32
          \/ ~InRange(call.input_vout, 4)
          \/ ~InRange(call.input_value, 8)
          \/ \E k \in 1..Len(call.outputs) : ~InRange(call.outputs[k].value, 8)) =>
        /\ out.exc # "none"
        /\ out.val = <<>>


(***************************************************************************)
(* Escrow contracts                                                        *)
(***************************************************************************)
\* the funding fields and the four transaction fields are all set
FullySigned(c) ==
    /\ c.funding_txid.some
    /\ c.funding_vout.some
    /\ c.funded_amount_sats.some
    /\ c.repayment_tx.some
    /\ c.default_tx.some
    /\ c.liquidation_tx.some
    /\ c.recovery_tx.some

\* a step that is a call of create_presigned_transactions
PresignStep == call'.fn = "create_presigned_transactions"

\* what a call of create_presigned_transactions may do
PresignEffect ==
    /\ out'.exc = "none" =>
          /\ contract.state = FUNDED
          /\ contract.funding_txid.some
          /\ contract.funded_amount_sats.some
          /\ contract'.state = TRANSACTIONS_SIGNED
          /\ FullySigned(contract')
          /\ out'.val = contract'
    /\ out'.exc # "none" =>
          /\ out'.exc = "ValueError"
          /\ contract' = contract
    /\ (contract.state # FUNDED \/ ~contract.funding_txid.some
          \/ ~contract.funded_amount_sats.some) => out'.exc = "ValueError"

\* C17: create_presigned_transactions succeeds only on a FUNDED contract
\* whose funding_txid and funded_amount_sats are set, otherwise it raises
\* ValueError and leaves the contract as it was; on success the four
\* transaction fields are set and the state is TRANSACTIONS_SIGNED, so a
\* contract in TRANSACTIONS_SIGNED always has its funding fields and its
\* four transaction fields set.
C17_PresignRequiresFunding ==
    /\ []((contract # NoContract /\ contract.state = TRANSACTIONS_SIGNED)
             => FullySigned(contract))
    /\ [][PresignStep => PresignEffect]_vars

\* a funded contract has just been pre-signed
C17_Witness ==
    /\ call.fn = "create_presigned_transactions"
    /\ out.exc = "none"
    /\ contract # NoContract
    /\ contract.state = TRANSACTIONS_SIGNED
    /\ contract.recovery_tx.some

\* the position of a state along INITIALIZED, FUNDED, TRANSACTIONS_SIGNED
Rank(state) ==
    CASE state = "absent" -> 0
      [] state = INITIALIZED -> 1
      [] state = FUNDED -> 2
      [] state = TRANSACTIONS_SIGNED -> 3

\* the funding of a contract, all None until it is funded
FundingOf(c) ==
    IF c = NoContract THEN <<None, None, None>>
    ELSE <<c.funding_txid, c.funding_vout, c.funded_amount_sats>>

\* C18: over any sequence of create_escrow_contract,
\* update_contract_with_funding and create_presigned_transactions calls on
\* one contract the state never moves back along INITIALIZED, FUNDED,
\* TRANSACTIONS_SIGNED, and a contract that has been funded is not funded
\* again.
C18_LifecycleOrdering ==
    [][/\ Rank(contract'.state) >= Rank(contract.state)
       /\ Rank(contract.state) >= 2 => FundingOf(contract') = FundingOf(contract)]_vars

(***************************************************************************)
(* Script layouts                                                          *)
(***************************************************************************)
\* a 33-byte key behind its push opcode 0x21
Push33(key_bytes) == <<33>> \o key_bytes

\* b comes no earlier than a in ascending byte order
Ascending(a, b) == ~BytesLess(b, a)

\* the hex keys of a list, decoded
KeyBytesOf(hex_keys) == [k \in 1..Len(hex_keys) |-> FromHex(hex_keys[k]).val]

\* list a holds the elements of list b, each as often as b does
SameElements(a, b) ==
    /\ Len(a) = Len(b)
    /\ \A x \in {b[k] : k \in 1..Len(b)} :
          Cardinality({k \in 1..Len(a) : a[k] = x})
              = Cardinality({k \in 1..Len(b) : b[k] = x})

TimelockReturned ==
    pc # "start" /\ call.fn = "create_timelocked_witness_script"
    /\ out.exc = "none"

\* an argument of create_timelocked_witness_script as the bytes it is
\* decoded to
ArgBytes(hex_key) == FromHex(Strip(hex_key))

\* the three arguments are 33-byte keys
ThreeKeys(c) ==
    \A k \in 1..3 :
        /\ ArgBytes(KeysOf(c)[k]).exc = "none"
        /\ Len(ArgBytes(KeysOf(c)[k]).val) = 33

PushIntReturned == pc # "start" /\ call.fn = "push_int"

\* the number of base-256 digits of v > 0
RECURSIVE ByteLength(_)
ByteLength(v) == IF v < 256 THEN 1 ELSE 1 + ByteLength(v \div 256)

\* the value of a little-endian byte sequence read as a Script number: the
\* top bit of the last byte is the sign
RECURSIVE Magnitude(_)
Magnitude(b) ==
    IF b = <<>> THEN 0
    ELSE IF Len(b) = 1 THEN Head(b) % 128
    ELSE Head(b) + 256 * Magnitude(Tail(b))

ScriptNumber(b) ==
    IF b = <<>> THEN 0
    ELSE IF b[Len(b)] >= 128 THEN -Magnitude(b) ELSE Magnitude(b)

\* the number an interpreter finds on the stack after the pushed bytes:
\* OP_0, OP_1..OP_16, or a direct push of 1..75 bytes
Pushed(script) ==
    IF script = <<0>> THEN 0
    ELSE IF Len(script) = 1 /\ script[1] \in 81..96 THEN script[1] - 80
    ELSE IF script[1] \in 1..75 /\ Len(script) = script[1] + 1
         THEN ScriptNumber(Tail(script))
    ELSE -1

\* C21: push_int(0) is 0x00; push_int(v) is 0x50+v for 1 <= v <= 16; for
\* v >= 17 it is a length byte and the shortest little-endian bytes of v,
\* with one 0x00 more exactly when the top byte has bit 0x80 set, the length
\* byte counting all bytes after it; read as a Script number the result
\* is v.
C21_MinimalPush ==
    (PushIntReturned /\ call.value >= 0) =>
        /\ out.exc = "none"
        /\ call.value = 0 => out.val = <<0>>
        /\ call.value \in 1..16 => out.val = <<80 + call.value>>
        /\ call.value >= 17 =>
              LET m    == ByteLength(call.value)
                  body == Tail(out.val)
              IN  /\ out.val[1] = Len(body)
                  /\ Len(body) \in {m, m + 1}
                  /\ \A k \in 1..m :
                        body[k] = (call.value \div Pow2(8 * (k - 1))) % 256
                  /\ Len(body) = m + 1 <=> body[m] >= 128
                  /\ Len(body) = m + 1 => body[m + 1] = 0
        /\ Pushed(out.val) = call.value

\* a value whose top byte has bit 0x80 set
C21_Witness ==
    /\ PushIntReturned
    /\ call.value = 32768
    /\ out.val = <<3, 0, 128, 0>>

\* C27: push_int returns a byte string for every integer argument,
\* negative ones included.
C27_PushIntReturns ==
    PushIntReturned => out.exc = "none"

(***************************************************************************)
(* Malformed addresses                                                     *)
(***************************************************************************)
DecodeReturned == pc # "start" /\ call.fn = "decode_bech32_to_scriptpubkey"

\* the part of an address after its last "1"
DataPartOf(address) == SubSeq(address, RFind1(address) + 1, Len(address))

\* the charset indexes of the data part without its checksum and without
\* the witness version
ProgramSymbols(address) ==
    LET d == DataPartOf(address)
    IN  [k \in 1..(Len(d) - 7) |-> CharsetIndex(d[k + 1])]

\* no separator or separator at index 0, a data character outside the
\* charset, fewer than seven data symbols, or a regrouping that fails
Malformed(address) ==
    \/ RFind1(address) <= 1
    \/ \E k \in 1..Len(DataPartOf(address)) :
          \A j \in 1..32 : CHARSET[j] # DataPartOf(address)[k]
    \/ Len(DataPartOf(address)) < 7
    \/ ~convertbits(ProgramSymbols(address), 5, 8, FALSE).some

\* C23: decode_bech32_to_scriptpubkey raises ValueError, and nothing else,
\* for an address without separator or with its only separator at index 0,
\* with a data character outside the charset, with fewer than seven data
\* symbols, or whose regrouping from 5 to 8 bits fails.
C23_MalformedAddressValueError ==
    (DecodeReturned /\ Malformed(call.address)) =>
        /\ out.exc = "ValueError"
        /\ out.val = <<>>

(***************************************************************************)
(* Length prefixes                                                         *)
(***************************************************************************)
WriteReturned == pc = "returned" /\ call.fn = "write_with_length"

\* the value of the global entry of a PSBT: the bytes after the magic, the
\* key 01 00 and the CompactSize that announces them
GlobalTx(bytes) ==
    IF bytes[8] < 253 THEN SubSeq(bytes, 9, 8 + bytes[8])
    ELSE SubSeq(bytes, 11, 10 + bytes[9] + 256 * bytes[10])

\* the unsigned transaction with its output count and each scriptPubKey
\* length as canonical CompactSize values
CanonicalTx(c) ==
    <<2, 0, 0, 0>> \o <<1>> \o Reverse(FromHex(c.input_txid).val)
    \o LittleEndian(c.input_vout, 4) \o <<0>> \o LittleEndian(c.sequence, 4)
    \o CompactSize(Len(c.outputs)) \o ExpectedOutputs(c.outputs)
    \o <<0, 0, 0, 0>>

\* C22: write_with_length writes the canonical CompactSize of the length
\* (one byte below 0xfd, 0xfd and a little-endian u16 up to 0xffff, 0xfe
\* and a little-endian u32 above) before the data, and the output count
\* and every scriptPubKey length of the unsigned transaction are canonical
\* CompactSize values too, for every count and length that
\* create_unsigned_psbt accepts.
C22_CanonicalCompactSize ==
    /\ WriteReturned =>
          out.val = call.stream \o CompactSize(call.length) \o DataOf(call.length)
    /\ (PsbtReturned /\ out.exc = "none") =>
          GlobalTx(b64decode(out.val)) = CanonicalTx(call)

(***************************************************************************)
(* The recovery template                                                   *)
(***************************************************************************)
\* the four input sequence bytes of the unsigned transaction of a PSBT made
\* for a call: they follow version, input count, txid, vout and scriptSig
SequenceIn(psbt, c) ==
    LET n == Len(FromHex(c.input_txid).val)
    IN  SubSeq(TxOf(psbt), n + 11, n + 14)

\* the witness script of the input map of a PSBT whose transaction and
\* script are shorter than 253 bytes: it follows the transaction, 00, the
\* 46 bytes of the witness UTXO entry and the key 01 05
WitnessScriptIn(psbt) ==
    LET bytes == b64decode(psbt)
        at    == 8 + bytes[8] + 1 + 46 + 2 + 1
    IN  SubSeq(bytes, at + 1, at + bytes[at])

\* the scriptPubKey of the witness UTXO entry
UtxoScriptIn(psbt) ==
    LET bytes == b64decode(psbt)
        at    == 8 + bytes[8] + 1 + 2 + 1 + 8 + 1
    IN  SubSeq(bytes, at + 1, at + bytes[at])

\* the recovery-branch script for the keys of an escrow
RecoveryScriptFor(escrow_result, recovery_blocks) ==
    create_timelocked_witness_script(
        escrow_result.public_keys_original_order.borrower,
        escrow_result.public_keys_original_order.investor,
        escrow_result.public_keys_original_order.platform,
        recovery_blocks)

AllOnes == <<255, 255, 255, 255>>

\* C24: in the result of generate_psbt_templates psbt_recovery has the
\* input sequence recovery_blocks and the other three have 0xffffffff, and
\* the witness script of psbt_recovery, to which its witness UTXO commits,
\* is the recovery-branch script with OP_CHECKSEQUENCEVERIFY and that
\* block count.
C24_RecoverySpendable ==
    (TemplatesReturned /\ out.exc = "none") =>
        /\ SequenceIn(out.val.psbt_recovery, call)
              = LittleEndian(PyInt(call.recovery_blocks), 4)
        /\ SequenceIn(out.val.psbt_repayment, call) = AllOnes
        /\ SequenceIn(out.val.psbt_default, call) = AllOnes
        /\ SequenceIn(out.val.psbt_liquidation, call) = AllOnes
        /\ LET expected == RecoveryScriptFor(call.escrow_result,
                                             call.recovery_blocks)
           IN  /\ expected.exc = "none"
               /\ WitnessScriptIn(out.val.psbt_recovery)
                     = FromHex(expected.val.witness_script).val
               /\ UtxoScriptIn(out.val.psbt_recovery)
                     = <<0, 32>> \o FromHex(expected.val.script_hash).val

(***************************************************************************)
(* Output values of the templates                                          *)
(***************************************************************************)
\* the value recorded in the witness UTXO entry of a PSBT: the 8 bytes
\* after the transaction, 00, the key 01 01 and the length byte
UtxoValueIn(psbt) ==
    LET bytes == b64decode(psbt) IN ValueAt(bytes, 8 + bytes[8] + 5)

RECURSIVE SumOf(_)
SumOf(values) ==
    IF values = <<>> THEN 0 ELSE Head(values) + SumOf(Tail(values))

\* the four PSBTs of a result
TemplatesOf(result) ==
    {result.psbt_repayment, result.psbt_default, result.psbt_liquidation,
     result.psbt_recovery}

\* C25: for input_value >= 0 the outputs of each of the four PSBTs of
\* generate_psbt_templates add up to at most the witness UTXO value
\* recorded in that PSBT, which is input_value.
C25_NoValueCreation ==
    (TemplatesReturned /\ out.exc = "none" /\ call.input_value >= 0) =>
        \A p \in TemplatesOf(out.val) :
            /\ UtxoValueIn(p) = call.input_value
            /\ SumOf(ValuesIn(p, call)) <= UtxoValueIn(p)

\* C26: every output of every PSBT of generate_psbt_templates is worth at
\* least 546 satoshis, the two shares of psbt_liquidation included.
C26_NoDustOutputs ==
    (TemplatesReturned /\ out.exc = "none") =>
        \A p \in TemplatesOf(out.val) :
            \A k \in 1..Len(ValuesIn(p, call)) : ValuesIn(p, call)[k] >= 546

(***************************************************************************)
(* Networks                                                                *)
(***************************************************************************)
\* the address starts with the bech32 prefix of the network and "1"
OnNetwork(address, network) ==
    StartsWith(address, NETWORK_CONFIG[network].bech32_prefix \o <<"1">>)

\* C28: a PSBT that create_unsigned_psbt or generate_psbt_templates builds
\* for a network only pays to addresses with the prefix of that network (tb
\* for testnet, bc for mainnet); a destination of the other network is
\* rejected.
C28_OutputsOnNetwork ==
    /\ (PsbtReturned /\ out.exc = "none") =>
          \A k \in 1..Len(call.outputs) :
              OnNetwork(call.outputs[k].address, call.network)
    /\ (TemplatesReturned /\ out.exc = "none") =>
          /\ OnNetwork(call.borrower_address, call.network)
          /\ OnNetwork(call.lender_address, call.network)

ContractCreated ==
    call.fn = "create_escrow_contract" /\ out.exc = "none"

\* C29: the escrow_address of the contract that create_escrow_contract
\* returns for network testnet or mainnet has the bech32 prefix of that
\* network, the network for which its borrower and lender key pairs were
\* generated.
C29_ContractOnNetwork ==
    ContractCreated =>
        /\ out.val.borrower_key.address[2] = call.network
        /\ out.val.lender_key.address[2] = call.network
        /\ out.val.escrow_address.some
        /\ OnNetwork(out.val.escrow_address.v, call.network)

\* the four transaction fields of a contract are set
AllSigned(c) ==
    /\ c.repayment_tx.some
    /\ c.default_tx.some
    /\ c.liquidation_tx.some
    /\ c.recovery_tx.some

\* the four transactions of a contract are the hashes of its current
\* funding, for the return addresses of the callers and an output amount
MatchesFunding(c, amount) ==
    /\ c.funding_txid.some
    /\ c.funding_vout.some
    /\ c.repayment_tx.v = create_simple_tx_hash(c.funding_txid.v,
           c.funding_vout.v, TestnetAddress, amount, TypeRepayment)
    /\ c.default_tx.v = create_simple_tx_hash(c.funding_txid.v,
           c.funding_vout.v, MainnetAddress, amount, TypeDefault)
    /\ c.liquidation_tx.v = create_simple_tx_hash(c.funding_txid.v,
           c.funding_vout.v, MainnetAddress, amount, TypeLiquidation)
    /\ c.recovery_tx.v = create_simple_tx_hash(c.funding_txid.v,
           c.funding_vout.v, TestnetAddress, amount, TypeRecovery)

\* C30: in every state reached by update_contract_with_funding and
\* create_presigned_transactions calls, when the four transactions are set
\* they are create_simple_tx_hash of the current funding_txid and
\* funding_vout and of funded_amount_sats minus the fee, an amount that is
\* strictly positive.
C30_TransactionsMatchFunding ==
    (contract # NoContract /\ AllSigned(contract)) =>
        /\ contract.funded_amount_sats.some
        /\ \E fee_rate_sat_vb \in FeeRates :
              /\ contract.funded_amount_sats.v - 250 * fee_rate_sat_vb > 0
              /\ MatchesFunding(contract,
                     contract.funded_amount_sats.v - 250 * fee_rate_sat_vb)
=============================================================================
